---- MODULE Spec2Model ----
(***************************************************************************)
(* Ryzm Terminal: data-freshness subsystem.                                *)
(*                                                                         *)
(*   SpecGateway    app/core/http_client.py  resilient_get, per-domain     *)
(*                  429/418 backoff state                                  *)
(*   SpecScheduler  app/background.py        refresh_cache, the 60 s loop  *)
(*                  over the TTL'd cache series and the side-tasks         *)
(*   SpecStartup    app/background.py        startup_background_tasks, the *)
(*                  lock-protected start of the refresh thread             *)
(*   SpecSnapshots  app/core/database.py     store_price_snapshot and      *)
(*                  find_price_near over the price_snapshots table         *)
(*   SpecEvaluator  app/core/database.py     save_council_record,          *)
(*                  store_price_snapshot and evaluate_council_accuracy     *)
(*                  over council_history and council_eval                  *)
(*   SpecBatch      app/core/database.py     evaluate_council_accuracy     *)
(*                  over two predictions, with a grading that raises, and  *)
(*                  get_multi_horizon_accuracy                             *)
(*   SpecTies       app/core/database.py     find_price_near over the      *)
(*                  tables of two runs that stored the same rows           *)
(*                                                                         *)
(* Time is in whole seconds.  Each specification leaves the variables of   *)
(* the other components at their initial values.                           *)
(***************************************************************************)
EXTENDS Integers, Sequences, FiniteSets, TLC

VARIABLES
    clock,              \* time.time()
    api_429_backoff,    \* _api_429_backoff: domain -> earliest retry time
    api_fail_count,     \* _api_fail_count: domain -> consecutive fail count
    net_calls,          \* number of requests.get calls issued, per domain
    gets,               \* number of resilient_get calls so far (bounded)
    last,               \* the last resilient_get call: inputs, pre-state, result
    run429,             \* per domain: the 429s since the counter was last reset
    cache,              \* app.core.cache.cache: series -> [data, updated]
    now,                \* refresh_cache's local `now` of the current tick
    pc,                 \* refresh_cache's position: index of the next step
    ran,                \* the steps refresh_cache has run in the current tick
    raised,             \* the steps of the current tick that raised
    fetch_calls,        \* number of calls of each series' fetch function
    tick,               \* [n, seen]: tick number, cache and call counts at tick start
    last_auto_council,  \* _last_auto_council
    failures,           \* number of raises so far in the run (bounded)
    bg_started,         \* _bg_started
    bg_lock,            \* _bg_lock: the caller holding it, or NoHolder
    bg_threads,         \* the callers whose call started a refresh thread
    st_pc,              \* caller -> position in startup_background_tasks
    st_done,            \* caller -> number of completed calls (bounded)
    first_guard,        \* the first caller to enter the locked section
    price_snapshots,    \* table price_snapshots, rows in insertion order
    council_history,    \* table council_history, row id = index
    council_eval,       \* table council_eval, a set of rows
    last_store,         \* the last store_price_snapshot call and the table before it
    found,              \* the last find_price_near call since the table changed
    eval_log,           \* every row evaluate_council_accuracy has written
    last_run,           \* the pairs the last evaluator run selected
    failed,             \* the last evaluator run, if it raised: where, and what was gradable
    summary,            \* the last get_multi_horizon_accuracy result since the tables changed
    runs,               \* two runs of the program: wall clock and price_snapshots of each
    tie,                \* the last lookup made in both runs and what each returned
    db_lock,            \* _db_lock: the thread holding it, or NoHolder
    db_pc,              \* thread -> position in its storage operation
    db_conns,           \* the threads whose connection is open
    db_exc,             \* thread -> whether the body of its session raised
    db_sessions,        \* thread -> number of storage operations made (bounded)
    entries,            \* the cache dict as the scheduler and the request handlers share it
    writer,             \* the scheduler thread between the two assignments of a refresh
    handler,            \* a request handler: position, series, value and timestamp read
    refreshes,          \* every refresh written: series, value, timestamp, writing thread
    nfetch,             \* number of fetch calls made by either thread (bounded)
    inflight,           \* thread -> its resilient_get call: position, domain, `now`
    sends,              \* every requests.get issued: domain, time, deadline at that time
    race_calls,         \* number of resilient_get calls started by the threads (bounded)
    eval_batch,         \* the evaluator's eval_batch: rows still to be executed
    batch_rows,         \* the rows of the evaluator's current batch
    tx_rows,            \* rows executed in the evaluator's open transaction
    visible,            \* committed council_eval rows, as any session reads them
    price_alerts,       \* table price_alerts, a set of rows
    alert_seq,          \* the last id the table's AUTOINCREMENT key handed out
    market,             \* cache["market"]["data"]: symbol -> price, None when absent
    notified,           \* every notification sent: alert id and the check that sent it
    last_check          \* the last check_price_alerts call and what it found

vars == <<clock, api_429_backoff, api_fail_count, net_calls, gets, last, run429,
          cache, now, pc, ran, raised, fetch_calls, tick, last_auto_council,
          failures, bg_started, bg_lock, bg_threads, st_pc, st_done,
          first_guard, price_snapshots, council_history, council_eval,
          last_store, found, eval_log, last_run, failed, summary, runs, tie,
          db_lock, db_pc, db_conns, db_exc, db_sessions,
          entries, writer, handler, refreshes, nfetch,
          inflight, sends, race_calls,
          eval_batch, batch_rows, tx_rows, visible,
          price_alerts, alert_seq, market, notified, last_check>>

gwVars == <<api_429_backoff, api_fail_count, net_calls, gets, last, run429>>
schedVars == <<cache, now, pc, ran, raised, fetch_calls, tick,
               last_auto_council, failures>>
startVars == <<bg_started, bg_lock, bg_threads, st_pc, st_done, first_guard>>
dbVars == <<price_snapshots, council_history, council_eval, last_store, found,
            eval_log, last_run, failed, summary>>
tieVars == <<runs, tie>>
sessVars == <<db_lock, db_pc, db_conns, db_exc, db_sessions>>
cacheVars == <<entries, writer, handler, refreshes, nfetch>>
raceVars == <<inflight, sends, race_calls>>
batchVars == <<eval_batch, batch_rows, tx_rows, visible>>
alertVars == <<price_alerts, alert_seq, market, notified, last_check>>
lateVars == <<batchVars, alertVars>>
extVars == <<tieVars, sessVars, cacheVars, raceVars, lateVars>>

(***************************************************************************)
(* Bounds of the model                                                     *)
(***************************************************************************)
MaxCalls == 4
MaxTicks == 3
MaxFailures == 2
StartTime == 4000
MaxClock == 70
MaxStartupCalls == 2
MaxSnapshots == 2
MaxPredictions == 1
MaxDbRows == 3
MaxSessions == 2
MaxRefreshes == 2
MaxRaceCalls == 3

Max(a, b) == IF a >= b THEN a ELSE b
Min(a, b) == IF a <= b THEN a ELSE b

(***************************************************************************)
(* HTTP resilience gateway: app/core/http_client.py                        *)
(***************************************************************************)
Domains == {"api.binance.com", "api.coingecko.com"}

\* A domain without a key in _api_429_backoff
NoEntry == -1

\* resp.headers.get("Retry-After"): None, or the header's text, one character
\* per element
NoHeader == <<"None">>
RetryAfterHeaders ==
    { NoHeader, <<>>, <<"3", "0">>, <<"W", "e", "d">> }

Digits == <<"0", "1", "2", "3", "4", "5", "6", "7", "8", "9">>
IsDigit(c) == \E i \in 1..10 : Digits[i] = c
DigitVal(c) == (CHOOSE i \in 1..10 : Digits[i] = c) - 1

RECURSIVE DigitsVal(_)
DigitsVal(s) ==
    IF s = <<>> THEN 0
    ELSE 10 * DigitsVal(SubSeq(s, 1, Len(s) - 1)) + DigitVal(s[Len(s)])

\* int(text): an optional sign followed by decimal digits; anything else
\* raises ValueError
IntParses(s) ==
    LET body == IF s # <<>> /\ s[1] \in {"-", "+"} THEN Tail(s) ELSE s
    IN  body # <<>> /\ \A i \in 1..Len(body) : IsDigit(body[i])
IntOf(s) ==
    IF s # <<>> /\ s[1] = "-" THEN 0 - DigitsVal(Tail(s))
    ELSE IF s # <<>> /\ s[1] = "+" THEN DigitsVal(Tail(s))
    ELSE DigitsVal(s)

\* lines 33-39: retry_after stays 0 unless the header is truthy and int()
\* accepts it
RetryAfter(h) ==
    IF h # NoHeader /\ h # <<>> /\ IntParses(h) THEN IntOf(h) ELSE 0

RECURSIVE Pow2(_)
Pow2(n) == IF n <= 0 THEN 1 ELSE 2 * Pow2(n - 1)

BackoffBase == 10
BackoffCap == 45

BanCooldownAsCap == BackoffCap

BackoffIgnoresHeader(retry_after, fails) ==
    Min(BackoffCap, BackoffBase * Pow2(fails - 1))
BackoffLinear(retry_after, fails) ==
    Max(retry_after, Min(BackoffCap, BackoffBase * fails))
BackoffShrinks(retry_after, fails) ==
    Max(retry_after, BackoffCap \div Pow2(fails - 1))

\* line 41: backoff = max(retry_after, min(45, 10 * (2 ** (fails - 1))))
Backoff(retry_after, fails) ==
    Max(retry_after, Min(BackoffCap, BackoffBase * Pow2(fails - 1)))

\* line 50: _api_429_backoff[domain] = now + 90
BanCooldown == 90

InBackoffEndsEarly(d) ==
    api_429_backoff[d] # NoEntry /\ clock + 1 < api_429_backoff[d]

\* line 23: domain in _api_429_backoff and now < _api_429_backoff[domain]
InBackoff(d) ==
    api_429_backoff[d] # NoEntry /\ clock < api_429_backoff[d]

NeverAlreadyCounted(exc) == FALSE

KeepCount(count) == count

DecrementCount(count) == IF count > 0 THEN count - 1 ELSE count

\* lines 56-57: if _api_fail_count.get(domain, 0) > 0: _api_fail_count[domain] = 0
ResetCount(count) == IF count > 0 THEN 0 ELSE count

\* lines 61-63: the handler counts the failure unless the exception carries
\* a response whose status is 429 or 418
AlreadyCounted(exc) ==
    exc.has_response /\ exc.status \in {429, 418}
HandlerCount(count, exc) ==
    IF ~AlreadyCounted(exc) THEN count + 1 ELSE count

NoCall ==
    [ dom |-> "none", outcome |-> "none", sent |-> FALSE, raised |-> FALSE,
      exc |-> "none", status |-> 0, header |-> NoHeader, t |-> 0,
      fail0 |-> [d \in Domains |-> 0],
      until0 |-> [d \in Domains |-> NoEntry],
      net0 |-> [d \in Domains |-> 0],
      backoff |-> 0 ]

Call(d, outcome, sent, isRaised, exc, status, h, b) ==
    [ dom |-> d, outcome |-> outcome, sent |-> sent, raised |-> isRaised,
      exc |-> exc, status |-> status, header |-> h, t |-> clock,
      fail0 |-> api_fail_count, until0 |-> api_429_backoff,
      net0 |-> net_calls,
      backoff |-> b ]


\* lines 23-26: fail fast, before the try block and before requests.get
FailFast(d) ==
    /\ InBackoff(d)
    /\ last' = Call(d, "failfast", FALSE, TRUE, "ConnectionError", 0, NoHeader, 0)
    /\ UNCHANGED <<api_429_backoff, api_fail_count, net_calls, run429>>

\* lines 29-46: requests.get returned status 429
Resp429(d, h) ==
    LET fails == api_fail_count[d] + 1
        backoff == Backoff(RetryAfter(h), fails)
        exc == [has_response |-> TRUE, status |-> 429]
    IN  /\ ~InBackoff(d)
        /\ net_calls' = [net_calls EXCEPT ![d] = @ + 1]
        /\ api_fail_count' =
               [api_fail_count EXCEPT ![d] = HandlerCount(fails, exc)]
        /\ api_429_backoff' = [api_429_backoff EXCEPT ![d] = clock + backoff]
        /\ run429' = [run429 EXCEPT ![d] =
               Append(@, [no_header |-> (h = NoHeader),
                          retry_after |-> RetryAfter(h), fails |-> fails,
                          backoff |-> backoff])]
        /\ last' = Call(d, "http429", TRUE, TRUE, "HTTPError", 429, h, backoff)

\* lines 47-54: requests.get returned status 418
Resp418(d, h) ==
    LET exc == [has_response |-> TRUE, status |-> 418]
    IN  /\ ~InBackoff(d)
        /\ net_calls' = [net_calls EXCEPT ![d] = @ + 1]
        /\ api_fail_count' =
               [api_fail_count EXCEPT ![d] = HandlerCount(@ + 1, exc)]
        /\ api_429_backoff' =
               [api_429_backoff EXCEPT ![d] = clock + BanCooldown]
        /\ last' = Call(d, "http418", TRUE, TRUE, "HTTPError", 418, h,
                        BanCooldown)
        /\ UNCHANGED run429

\* lines 55-59: any other status; the response is returned
OtherStatuses == {200, 500}
RespOther(d, status) ==
    /\ ~InBackoff(d)
    /\ net_calls' = [net_calls EXCEPT ![d] = @ + 1]
    /\ api_fail_count' =
           [api_fail_count EXCEPT ![d] = ResetCount(@)]
    /\ run429' = [run429 EXCEPT ![d] = <<>>]
    /\ last' = Call(d, "returned", TRUE, FALSE, "none", status, NoHeader, 0)
    /\ UNCHANGED api_429_backoff

\* lines 29, 60-64: requests.get raised (timeout, connection failure): the
\* exception carries no response
TransportError(d) ==
    LET exc == [has_response |-> FALSE, status |-> 0]
    IN  /\ ~InBackoff(d)
        /\ net_calls' = [net_calls EXCEPT ![d] = @ + 1]
        /\ api_fail_count' =
               [api_fail_count EXCEPT ![d] = HandlerCount(@, exc)]
        /\ last' = Call(d, "transport", TRUE, TRUE, "Timeout", 0, NoHeader, 0)
        /\ UNCHANGED <<api_429_backoff, run429>>

resilient_get(d) ==
    /\ gets < MaxCalls
    /\ gets' = gets + 1
    /\ \/ FailFast(d)
       \/ \E h \in RetryAfterHeaders : Resp429(d, h)
       \/ \E h \in {NoHeader, <<"3", "0">>} : Resp418(d, h)
       \/ \E s \in OtherStatuses : RespOther(d, s)
       \/ TransportError(d)
    /\ UNCHANGED clock
    /\ UNCHANGED <<schedVars, startVars, dbVars, extVars>>

\* the wall clock moves on between calls: to the last second of a domain's
\* backoff, or to its deadline
Deadlines == {api_429_backoff[d] : d \in Domains} \ {NoEntry}
AdvanceTargets ==
    {t \in Deadlines \cup {u - 1 : u \in Deadlines} : t > clock}
Advance(t) ==
    /\ t <= MaxClock
    /\ clock' = t
    /\ UNCHANGED gwVars
    /\ UNCHANGED <<schedVars, startVars, dbVars, extVars>>

\* a status that still says backoff at the deadline itself
HealthStatusInclusive(t, earliest) ==
    IF t <= earliest THEN "backoff" ELSE "ok"
\* line 73: "backoff" if now < earliest else "ok"
HealthStatus(t, earliest) ==
    IF t < earliest THEN "backoff" ELSE "ok"

\* lines 67-77: one entry per key of _api_429_backoff.  Times are whole
\* seconds here, on which round() changes nothing.
get_api_health ==
    [d \in {x \in Domains : api_429_backoff[x] # NoEntry} |->
        [status |-> HealthStatus(clock, api_429_backoff[d]),
         fails |-> api_fail_count[d],
         backoff_remaining |-> Max(0, api_429_backoff[d] - clock)]]

(***************************************************************************)
(* Refresh scheduler: app/background.py, refresh_cache                     *)
(***************************************************************************)
CACHE_TTL == 300
MARKET_CACHE_TTL == 60
RISK_CACHE_TTL == 60
AUTO_COUNCIL_INTERVAL == 3600

\* the pass with the evaluation moved up, between the snapshot and the alerts
StepsEvalSecond ==
    << "news", "market", "fear_greed", "kimchi", "long_short_ratio",
       "long_short_history", "funding_rate", "liquidations", "heatmap",
       "multi_tf", "onchain", "auto_council", "scanner", "regime",
       "correlation", "whale_wallets", "liq_zones", "risk_gauge",
       "latest_briefing", "snapshot", "eval", "alerts", "cleanup" >>

\* the pass with the alert check moved to the front, before the series
StepsAlertsFirst ==
    << "alerts", "news", "market", "fear_greed", "kimchi",
       "long_short_ratio", "long_short_history", "funding_rate",
       "liquidations", "heatmap", "multi_tf", "onchain", "auto_council",
       "scanner", "regime", "correlation", "whale_wallets", "liq_zones",
       "risk_gauge", "latest_briefing", "snapshot", "cleanup", "eval" >>

\* The try blocks of one pass of the while loop, in source order
Steps ==
    << "news", "market", "fear_greed", "kimchi", "long_short_ratio",
       "long_short_history", "funding_rate", "liquidations", "heatmap",
       "multi_tf", "onchain", "auto_council", "scanner", "regime",
       "correlation", "whale_wallets", "liq_zones", "risk_gauge",
       "latest_briefing", "snapshot", "alerts", "cleanup", "eval" >>
NSteps == Len(Steps)
SleepPc == NSteps + 1

\* The series refreshed by the pattern
\*   if now - cache[s]["updated"] > ttl: cache[s]["data"] = fetch(); cache[s]["updated"] = now
Series ==
    { "news", "market", "fear_greed", "kimchi", "long_short_ratio",
      "long_short_history", "funding_rate", "liquidations", "heatmap",
      "multi_tf", "onchain", "scanner", "regime", "correlation",
      "whale_wallets", "liq_zones" }
SideTasks == {"snapshot", "alerts", "cleanup", "eval"}
CacheKeys == Series \cup {"auto_council", "risk_gauge", "latest_briefing"}

TTL(s) ==
    CASE s \in {"news", "heatmap", "multi_tf", "onchain", "regime"} -> CACHE_TTL
      [] s = "market" -> MARKET_CACHE_TTL
      [] s \in {"fear_greed", "kimchi", "long_short_ratio", "funding_rate"}
             -> RISK_CACHE_TTL
      [] s = "long_short_history" -> 3600
      [] s \in {"liquidations", "whale_wallets", "liq_zones"} -> 120
      [] s = "scanner" -> 60
      [] s = "correlation" -> 600

IsStaleAtTTL(s) == now - cache[s].updated >= TTL(s)

\* if now - cache[s]["updated"] > ttl
IsStale(s) == now - cache[s].updated > TTL(s)

Current == Steps[pc]
InTick == pc \in 1..NSteps

AbortTick(p) == SleepPc
RetrySameStep(p) == p

\* every try block is followed by the next one, whether its body completed
\* or its except clause ran
AfterRaise(p) == p + 1

CacheStampedOnRaise(s) == [cache EXCEPT ![s].updated = now]

\* the fetch raised before either assignment: the entry is as it was
CacheAfterRaise(s) == cache

Done(step) ==
    /\ pc' = pc + 1
    /\ ran' = Append(ran, step)
    /\ UNCHANGED <<raised, failures>>

Raise(step) ==
    /\ failures < MaxFailures
    /\ failures' = failures + 1
    /\ raised' = raised \cup {step}
    /\ pc' = AfterRaise(pc)
    /\ ran' = Append(ran, step)

\* while True: now = time.time()
BeginTick ==
    /\ pc = 0
    /\ now' = clock
    /\ pc' = 1
    /\ ran' = <<>>
    /\ raised' = {}
    /\ tick' = [n |-> tick.n + 1, cache0 |-> cache, calls0 |-> fetch_calls]
    /\ UNCHANGED <<clock, cache, fetch_calls, last_auto_council, failures>>
    /\ UNCHANGED <<gwVars, startVars, dbVars, extVars>>

\* a series whose age is within its TTL: nothing is called
SeriesFresh(s) ==
    /\ ~IsStale(s)
    /\ Done(s)
    /\ UNCHANGED <<cache, fetch_calls>>

\* the fetch returned: data, then updated, are assigned.  The value returned
\* by the k-th call of a fetch function is written k.
SeriesFetched(s) ==
    /\ IsStale(s)
    /\ fetch_calls' = [fetch_calls EXCEPT ![s] = @ + 1]
    /\ cache' = [cache EXCEPT ![s] =
                     [data |-> fetch_calls[s] + 1, updated |-> now]]
    /\ Done(s)

\* the fetch raised: except Exception logs
SeriesFetchRaised(s) ==
    /\ IsStale(s)
    /\ fetch_calls' = [fetch_calls EXCEPT ![s] = @ + 1]
    /\ cache' = CacheAfterRaise(s)
    /\ Raise(s)

SeriesStep ==
    /\ InTick /\ Current \in Series
    /\ \/ SeriesFresh(Current)
       \/ SeriesFetched(Current)
       \/ SeriesFetchRaised(Current)
    /\ UNCHANGED <<clock, now, tick, last_auto_council>>
    /\ UNCHANGED <<gwVars, startVars, dbVars, extVars>>

\* lines 234-256: the hourly council runs only over a non-empty market value
CouncilDue ==
    /\ now - last_auto_council > AUTO_COUNCIL_INTERVAL
    /\ cache["market"].data # 0

CouncilWritten ==
    /\ cache' = [cache EXCEPT !["auto_council"] =
                     [data |-> tick.n, updated |-> now]]
    /\ last_auto_council' = now

AutoCouncilStep ==
    /\ InTick /\ Current = "auto_council"
    /\ \/ ~CouncilDue /\ Done(Current)
            /\ UNCHANGED <<cache, last_auto_council>>
       \/ CouncilDue /\ CouncilWritten /\ Done(Current)
       \/ CouncilDue /\ Raise(Current)
            /\ UNCHANGED <<cache, last_auto_council>>
       \/ CouncilDue /\ CouncilWritten /\ Raise(Current)
    /\ UNCHANGED <<clock, now, tick, fetch_calls>>
    /\ UNCHANGED <<gwVars, startVars, dbVars, extVars>>

\* lines 305-338: cache["risk_gauge"] = {"data": risk, "updated": now}; the
\* body may raise before the assignment or after it
RiskGaugeWritten ==
    cache' = [cache EXCEPT !["risk_gauge"] = [data |-> tick.n, updated |-> now]]

RiskGaugeStep ==
    /\ InTick /\ Current = "risk_gauge"
    /\ \/ RiskGaugeWritten /\ Done(Current)
       \/ Raise(Current) /\ UNCHANGED cache
       \/ RiskGaugeWritten /\ Raise(Current)
    /\ UNCHANGED <<clock, now, tick, fetch_calls, last_auto_council>>
    /\ UNCHANGED <<gwVars, startVars, dbVars, extVars>>

\* lines 340-349: the briefing is built once, while the title is empty
BriefingStep ==
    /\ InTick /\ Current = "latest_briefing"
    /\ \/ cache["latest_briefing"].data # 0 /\ Done(Current)
            /\ UNCHANGED cache
       \/ cache["latest_briefing"].data = 0 /\ Done(Current)
            /\ cache' = [cache EXCEPT !["latest_briefing"].data = 1]
       \/ cache["latest_briefing"].data = 0 /\ Raise(Current)
            /\ UNCHANGED cache
    /\ UNCHANGED <<clock, now, tick, fetch_calls, last_auto_council>>
    /\ UNCHANGED <<gwVars, startVars, dbVars, extVars>>

\* lines 351-373: store_price_snapshot, check_price_alerts,
\* cleanup_rate_limits, evaluate_council_accuracy, each in its own try
SideTaskStep ==
    /\ InTick /\ Current \in SideTasks
    /\ \/ Done(Current)
       \/ Raise(Current)
    /\ UNCHANGED <<clock, now, tick, cache, fetch_calls, last_auto_council>>
    /\ UNCHANGED <<gwVars, startVars, dbVars, extVars>>

\* line 375: time.sleep(60); the next pass reads the clock 60 s later, or
\* later still
SleepChoices == {60, 61}
Sleep ==
    /\ pc = SleepPc
    /\ tick.n < MaxTicks
    /\ \E dt \in SleepChoices : clock' = clock + dt
    /\ pc' = 0
    /\ UNCHANGED <<cache, now, ran, raised, fetch_calls, tick,
                   last_auto_council, failures>>
    /\ UNCHANGED <<gwVars, startVars, dbVars, extVars>>

(***************************************************************************)
(* Startup guard: app/background.py startup_background_tasks               *)
(***************************************************************************)
\* The threads of the process that may call startup_background_tasks
Callers == {"w1", "w2", "w3"}
NoHolder == "none"

LockIgnored == TRUE
\* threading.Lock: `with _bg_lock` blocks while another caller holds it
LockFree == bg_lock = NoHolder

\* call startup_background_tasks(): the caller reaches `with _bg_lock`
StartupCall(c) ==
    /\ st_pc[c] = "idle"
    /\ st_done[c] < MaxStartupCalls
    /\ st_pc' = [st_pc EXCEPT ![c] = "acquire"]
    /\ UNCHANGED <<bg_started, bg_lock, bg_threads, st_done, first_guard>>

\* with _bg_lock:
StartupAcquire(c) ==
    /\ st_pc[c] = "acquire"
    /\ LockFree
    /\ bg_lock' = c
    /\ first_guard' = IF first_guard = NoHolder THEN c ELSE first_guard
    /\ st_pc' = [st_pc EXCEPT ![c] = "check"]
    /\ UNCHANGED <<bg_started, bg_threads, st_done>>

\* if not _bg_started:
StartupCheck(c) ==
    /\ st_pc[c] = "check"
    /\ st_pc' = [st_pc EXCEPT ![c] = IF bg_started THEN "release" ELSE "set"]
    /\ UNCHANGED <<bg_started, bg_lock, bg_threads, st_done, first_guard>>

\* _bg_started = True
StartupSet(c) ==
    /\ st_pc[c] = "set"
    /\ bg_started' = TRUE
    /\ st_pc' = [st_pc EXCEPT ![c] = "start"]
    /\ UNCHANGED <<bg_lock, bg_threads, st_done, first_guard>>

\* bg_thread = threading.Thread(target=refresh_cache, daemon=True); bg_thread.start()
StartupStartThread(c) ==
    /\ st_pc[c] = "start"
    /\ bg_threads' = Append(bg_threads, c)
    /\ st_pc' = [st_pc EXCEPT ![c] = "release"]
    /\ UNCHANGED <<bg_started, bg_lock, st_done, first_guard>>

\* leaving the with block releases the lock; the call returns
StartupRelease(c) ==
    /\ st_pc[c] = "release"
    /\ bg_lock' = IF bg_lock = c THEN NoHolder ELSE bg_lock
    /\ st_pc' = [st_pc EXCEPT ![c] = "idle"]
    /\ st_done' = [st_done EXCEPT ![c] = @ + 1]
    /\ UNCHANGED <<bg_started, bg_threads, first_guard>>

startup_background_tasks(c) ==
    /\ \/ StartupCall(c)
       \/ StartupAcquire(c)
       \/ StartupCheck(c)
       \/ StartupSet(c)
       \/ StartupStartThread(c)
       \/ StartupRelease(c)
    /\ UNCHANGED clock
    /\ UNCHANGED <<gwVars, schedVars, dbVars, extVars>>

(***************************************************************************)
(* Snapshot store: app/core/database.py store_price_snapshot,              *)
(* find_price_near                                                         *)
(***************************************************************************)
\* utc_now_str(): the clock formatted "%Y-%m-%d %H:%M:%S".  The format is
\* fixed-width, so comparing the strings compares the seconds they denote.
utc_now_str == clock

Symbols == {"BTC", "ETH"}
Sources == {"binance", "backup"}

\* Python None: fetch_btc_price_binance failed, find_price_near found nothing
None == -1

\* What fetch_btc_price_binance can return
FetchedPrices == {None, 0, 100, 105}

ConflictIgnored(ts_utc, symbol) == FALSE
\* UNIQUE(ts_utc, symbol)
Conflict(ts_utc, symbol) ==
    \E i \in DOMAIN price_snapshots :
        /\ price_snapshots[i].ts_utc = ts_utc
        /\ price_snapshots[i].symbol = symbol

\* INSERT OR REPLACE: the stored row of the same second and symbol is overwritten
ReplaceOnConflict(row) ==
    IF Conflict(row.ts_utc, row.symbol)
    THEN [i \in DOMAIN price_snapshots |->
             IF /\ price_snapshots[i].ts_utc = row.ts_utc
                /\ price_snapshots[i].symbol = row.symbol
             THEN row ELSE price_snapshots[i]]
    ELSE Append(price_snapshots, row)

\* INSERT OR IGNORE INTO price_snapshots
InsertOrIgnore(row) ==
    IF Conflict(row.ts_utc, row.symbol)
    THEN price_snapshots
    ELSE Append(price_snapshots, row)

\* store_price_snapshot(symbol, source); price is what the fetch returned
store_price_snapshot(symbol, source, price) ==
    /\ Len(price_snapshots) < MaxSnapshots
    /\ Len(price_snapshots) + Len(council_history) < MaxDbRows
    /\ price_snapshots' =
           IF price = None \/ price <= 0
           THEN price_snapshots
           ELSE InsertOrIgnore([ts_utc |-> utc_now_str, symbol |-> symbol,
                                price |-> price, source |-> source])
    /\ last_store' = [symbol |-> symbol, source |-> source, price |-> price,
                      ts_utc |-> utc_now_str, before |-> price_snapshots]
    /\ found' = [symbol |-> "", target |-> None, window_min |-> None,
                 price |-> None]
    /\ UNCHANGED <<clock, council_history, council_eval, eval_log, last_run,
                   failed, summary>>
    /\ UNCHANGED <<gwVars, schedVars, startVars, extVars>>

Abs(x) == IF x < 0 THEN -x ELSE x

WindowOpen(ts_utc, target, window_min) ==
    target - window_min * 60 < ts_utc /\ ts_utc < target + window_min * 60
WindowUnbounded(ts_utc, target, window_min) == TRUE
\* ts_utc BETWEEN start AND end
InWindow(ts_utc, target, window_min) ==
    target - window_min * 60 <= ts_utc /\ ts_utc <= target + window_min * 60

\* The rows the SELECT of find_price_near returns
Candidates(symbol, target, window_min) ==
    {i \in DOMAIN price_snapshots :
        /\ price_snapshots[i].symbol = symbol
        /\ InWindow(price_snapshots[i].ts_utc, target, window_min)}

Dist(i, target) == Abs(price_snapshots[i].ts_utc - target)

Farthest(symbol, target, window_min) ==
    {i \in Candidates(symbol, target, window_min) :
        \A j \in Candidates(symbol, target, window_min) :
            Dist(i, target) >= Dist(j, target)}
\* min(rows, key = distance): the first row of least distance in the order
\* the SELECT returned them; the query has no ORDER BY, so that can be any
\* row of least distance
Closest(symbol, target, window_min) ==
    {i \in Candidates(symbol, target, window_min) :
        \A j \in Candidates(symbol, target, window_min) :
            Dist(i, target) <= Dist(j, target)}

\* find_price_near(symbol, target_dt_utc, window_min): the values a call
\* can return
find_price_near(symbol, target, window_min) ==
    IF Candidates(symbol, target, window_min) = {}
    THEN {None}
    ELSE {price_snapshots[i].price : i \in Closest(symbol, target, window_min)}

\* The instants at which something happens in a run
Instants == {0, 300, 900, 1500}
Targets == {900}
Windows == {0, 10}

\* One call of find_price_near
FindPriceNear(symbol, target, window_min) ==
    /\ \E price \in find_price_near(symbol, target, window_min) :
           found' = [symbol |-> symbol, target |-> target,
                     window_min |-> window_min, price |-> price]
    /\ UNCHANGED <<clock, price_snapshots, council_history, council_eval,
                   last_store, eval_log, last_run, failed, summary>>
    /\ UNCHANGED <<gwVars, schedVars, startVars, extVars>>

\* Time passes
TimePasses(t) ==
    /\ t > clock
    /\ clock' = t
    /\ UNCHANGED dbVars
    /\ UNCHANGED <<gwVars, schedVars, startVars, extVars>>

(***************************************************************************)
(* Prediction evaluator: app/core/database.py save_council_record,         *)
(* evaluate_council_accuracy                                               *)
(***************************************************************************)
Predictions == {"BULL", "BEAR", "NEUTRAL"}
NULL == "NULL"

\* The horizons the scheduler passes, in minutes
HorizonsMin == <<15, 60, 240, 1440>>
EVAL_WINDOW_MIN == 10
EVAL_BATCH_LIMIT == 50

NoFailure == [pair |-> <<0, 0>>, gradable |-> {}]
NoSummary == <<>>

\* save_council_record(result, btc_price); prediction is
\* result.get("prediction", "NEUTRAL")
save_council_record(prediction, btc_price) ==
    /\ Len(council_history) < MaxPredictions
    /\ Len(price_snapshots) + Len(council_history) < MaxDbRows
    /\ council_history' =
           Append(council_history,
                  [timestamp |-> utc_now_str, btc_price |-> btc_price,
                   prediction |-> prediction, return_pct |-> NULL,
                   evaluated_at_utc |-> NULL, price_source |-> NULL])
    /\ UNCHANGED <<clock, price_snapshots, council_eval, last_store, found,
                   eval_log, last_run, failed>>
    /\ summary' = NoSummary
    /\ UNCHANGED <<gwVars, schedVars, startVars, extVars>>

CutoffNow(h) == clock
\* cutoff = now - timedelta(minutes=h)
Cutoff(h) == clock - h * 60

AlwaysPending(id, h) == TRUE
\* LEFT JOIN council_eval e ON e.council_id = h.id AND e.horizon_min = ?
\* WHERE e.council_id IS NULL
NotEvaluated(id, h) ==
    ~ \E e \in council_eval : e.council_id = id /\ e.horizon_min = h

\* The rows the SELECT matches for horizon h
Pending(h) ==
    {id \in DOMAIN council_history :
        /\ NotEvaluated(id, h)
        /\ council_history[id].btc_price > 0
        /\ council_history[id].timestamp < Cutoff(h)}

\* ORDER BY h.id ASC LIMIT 50
Batch(h) ==
    LET pending == Pending(h)
    IN  {id \in pending :
            Cardinality({j \in pending : j < id}) < EVAL_BATCH_LIMIT}

\* COALESCE(h.prediction, 'NEUTRAL')
Coalesce(prediction) == IF prediction = NULL THEN "NEUTRAL" ELSE prediction

HitGradesNeutral(prediction, base_price, price_after) ==
    IF (prediction = "BULL") = (price_after > base_price) THEN 1 ELSE 0
HitTieIsBull(prediction, base_price, price_after) ==
    IF prediction = "NEUTRAL" THEN -1
    ELSE IF (prediction = "BULL") = (price_after >= base_price) THEN 1 ELSE 0
\* hit: -1 for NEUTRAL, else 1 when the predicted and the actual direction agree
Hit(prediction, base_price, price_after) ==
    IF prediction = "NEUTRAL" THEN -1
    ELSE IF (prediction = "BULL") = (price_after > base_price) THEN 1 ELSE 0

\* round((price_after - base_price) / base_price * 100, 4), exact for the
\* prices of the model
ReturnPct(base_price, price_after) ==
    IF base_price > 0 THEN ((price_after - base_price) * 100) \div base_price ELSE 0

\* target_dt = ts_dt + timedelta(minutes=h)
Target(id, h) == council_history[id].timestamp + h * 60

RangeOf(seq) == {seq[i] : i \in DOMAIN seq}
MinOf(S) == CHOOSE x \in S : \A y \in S : x <= y

\* The (id, horizon) pairs one run selects
Selected(horizons_min) ==
    UNION {{<<id, h>> : id \in Batch(h)} : h \in RangeOf(horizons_min)}

\* The values find_price_near can return for a pair
PriceAfter(pr) == find_price_near("BTC", Target(pr[1], pr[2]), EVAL_WINDOW_MIN)

\* The pairs for which find_price_near returns a price
Graded(horizons_min) == {pr \in Selected(horizons_min) : PriceAfter(pr) # {None}}

EvalRow(pr, price_after) ==
    [council_id |-> pr[1], horizon_min |-> pr[2], price_after |-> price_after,
     hit |-> Hit(Coalesce(council_history[pr[1]].prediction),
                 council_history[pr[1]].btc_price, price_after),
     evaluated_at_utc |-> utc_now_str]

\* a table keyed on council_id alone: a new row replaces the prediction's
\* rows of every horizon
ReplaceAllHorizons(table, rows) ==
    {e \in table : ~ \E r \in rows : r.council_id = e.council_id} \cup rows

\* INSERT OR REPLACE INTO council_eval, PRIMARY KEY (council_id, horizon_min)
InsertOrReplace(table, rows) ==
    {e \in table : ~ \E r \in rows : r.council_id = e.council_id
                                     /\ r.horizon_min = e.horizon_min}
        \cup rows

\* The writes of a run whose loop completed the horizons `done`, the first
\* horizons of horizons_min: one batch per horizon
EvalWrites(horizons_min, done) ==
    LET graded == Graded(done)
        first == MinOf(RangeOf(horizons_min))
    IN  \E pa \in [graded -> {r.price : r \in RangeOf(price_snapshots)}] :
            /\ \A pr \in graded : pa[pr] \in PriceAfter(pr)
            /\ LET rows == {EvalRow(pr, pa[pr]) : pr \in graded}
               IN  /\ council_eval' = InsertOrReplace(council_eval, rows)
                   /\ council_history' =
                          [id \in DOMAIN council_history |->
                              IF <<id, first>> \in graded
                              THEN [council_history[id] EXCEPT
                                       !.return_pct =
                                           ReturnPct(council_history[id].btc_price,
                                                     pa[<<id, first>>]),
                                       !.evaluated_at_utc = utc_now_str,
                                       !.price_source = "binance_snapshot"]
                              ELSE council_history[id]]
                   /\ eval_log' = eval_log \cup rows

\* evaluate_council_accuracy(horizons_min): one run over all horizons
evaluate_council_accuracy(horizons_min) ==
    /\ EvalWrites(horizons_min, horizons_min)
    /\ last_run' = Selected(horizons_min)
    /\ failed' = NoFailure
    /\ summary' = NoSummary
    /\ UNCHANGED <<clock, price_snapshots, last_store, found>>
    /\ UNCHANGED <<gwVars, schedVars, startVars, extVars>>

\* evaluate_council_accuracy(horizons_min) when grading row id of the k-th
\* horizon raises: the exception leaves both loops for the one except
\* clause of the function, which logs it.  The batch of that horizon is
\* not written and the later horizons are not reached.
evaluate_council_accuracy_raising(horizons_min, k, id) ==
    /\ id \in Batch(horizons_min[k])
    /\ EvalWrites(horizons_min, SubSeq(horizons_min, 1, k - 1))
    /\ last_run' = Selected(SubSeq(horizons_min, 1, k))
    /\ failed' = [pair |-> <<id, horizons_min[k]>>,
                  gradable |-> Graded(horizons_min)]
    /\ summary' = NoSummary
    /\ UNCHANGED <<clock, price_snapshots, last_store, found>>
    /\ UNCHANGED <<gwVars, schedVars, startVars, extVars>>

\* get_multi_horizon_accuracy: HORIZONS
HORIZONS == <<15, 60, 240, 1440>>

CountsNeutral(hit) == TRUE
\* CASE WHEN e.hit >= 0
IsActive(hit) == hit >= 0

\* round(num / den * 100, 1), in tenths of a percent
Pct1(num, den) == (2000 * num + den) \div (2 * den)

\* FROM council_eval e JOIN council_history h ON h.id = e.council_id
\* WHERE e.horizon_min = ?
JoinedRows(h) ==
    {e \in council_eval : e.horizon_min = h /\ e.council_id \in DOMAIN council_history}

\* The entry of one horizon; avg_return_pct and by_confidence are left out
AccuracyOf(h) ==
    LET total_all == Cardinality(JoinedRows(h))
        total_active == Cardinality({e \in JoinedRows(h) : IsActive(e.hit)})
        hits == Cardinality({e \in JoinedRows(h) : e.hit = 1})
    IN  [evaluated |-> total_active,
         total_with_neutral |-> total_all,
         hits |-> hits,
         accuracy_pct |-> IF total_active > 0 THEN Pct1(hits, total_active) ELSE None,
         coverage_pct |-> IF total_all > 0 THEN Pct1(total_active, total_all) ELSE None]

get_multi_horizon_accuracy ==
    /\ summary' = [h \in RangeOf(HORIZONS) |-> AccuracyOf(h)]
    /\ UNCHANGED <<clock, price_snapshots, council_history, council_eval,
                   last_store, found, eval_log, last_run, failed>>
    /\ UNCHANGED <<gwVars, schedVars, startVars, extVars>>

\* Two predictions made at time 0 and the snapshots stored up to time 3601
BatchHistories ==
    {<<[timestamp |-> 0, btc_price |-> 100, prediction |-> p1, return_pct |-> NULL,
        evaluated_at_utc |-> NULL, price_source |-> NULL],
       [timestamp |-> 0, btc_price |-> 100, prediction |-> p2, return_pct |-> NULL,
        evaluated_at_utc |-> NULL, price_source |-> NULL]>> :
        p1 \in Predictions, p2 \in Predictions}
BatchRows(ts_utc) ==
    {[ts_utc |-> ts_utc, symbol |-> "BTC", price |-> p, source |-> "binance"] :
        p \in {95, 100, 105}}
BatchTables ==
    {<<>>} \cup {<<r>> : r \in BatchRows(900) \cup BatchRows(3600)}
           \cup {<<r1, r2>> : r1 \in BatchRows(900), r2 \in BatchRows(3600)}

EvalInstants == {0, 300, 901, 3600, 3601}
EvalPrices == {95, 100, 105}
BasePrices == {100}

(***************************************************************************)
(* find_price_near over two tables: app/core/database.py                   *)
(***************************************************************************)
Runs == {"run1", "run2"}

\* What datetime.now(timezone.utc) reads; the wall clock can be set back
TieInstants == {300, 900, 1500}
TiePrices == {100, 105}

\* The order in which the SELECT of find_price_near returns its rows.  The
\* query has no ORDER BY: a table scan returns them in insertion order, a
\* search of the index of UNIQUE(ts_utc, symbol) in order of ts_utc.
Plans == {"scan", "index"}

\* INSERT OR IGNORE INTO price_snapshots, on the table of one run
InsertOrIgnoreInto(table, row) ==
    IF \E i \in DOMAIN table : table[i].ts_utc = row.ts_utc /\ table[i].symbol = row.symbol
    THEN table
    ELSE Append(table, row)

\* store_price_snapshot("BTC", "binance") in one run
RunStore(r, price) ==
    /\ Len(runs[r].table) < MaxSnapshots
    /\ runs' = [runs EXCEPT ![r].table =
                   InsertOrIgnoreInto(@, [ts_utc |-> runs[r].wall, symbol |-> "BTC",
                                          price |-> price, source |-> "binance"])]
    /\ tie' = [target |-> None, plan |-> "", price |-> [x \in Runs |-> None]]
    /\ UNCHANGED clock
    /\ UNCHANGED <<gwVars, schedVars, startVars, dbVars, sessVars, cacheVars, raceVars,
                 lateVars>>

\* The wall clock of one run moves, forward or back
RunClock(r, t) ==
    /\ t # runs[r].wall
    /\ runs' = [runs EXCEPT ![r].wall = t]
    /\ UNCHANGED <<clock, tie>>
    /\ UNCHANGED <<gwVars, schedVars, startVars, dbVars, sessVars, cacheVars, raceVars,
                 lateVars>>

\* The rows the SELECT matches in a table
CandidatesIn(table, symbol, target, window_min) ==
    {i \in DOMAIN table :
        /\ table[i].symbol = symbol
        /\ InWindow(table[i].ts_utc, target, window_min)}

\* i comes before j in the rows the SELECT returns
Before(table, plan, i, j) ==
    IF plan = "scan" THEN i < j ELSE table[i].ts_utc < table[j].ts_utc

\* min(rows, key = distance): the first row of least distance
FirstClosestIn(table, plan, symbol, target, window_min) ==
    CHOOSE i \in CandidatesIn(table, symbol, target, window_min) :
        \A j \in CandidatesIn(table, symbol, target, window_min) \ {i} :
            \/ Abs(table[i].ts_utc - target) < Abs(table[j].ts_utc - target)
            \/ /\ Abs(table[i].ts_utc - target) = Abs(table[j].ts_utc - target)
               /\ Before(table, plan, i, j)

\* find_price_near(symbol, target_dt_utc, window_min) on one table
find_price_near_in(table, plan, symbol, target, window_min) ==
    IF CandidatesIn(table, symbol, target, window_min) = {}
    THEN None
    ELSE table[FirstClosestIn(table, plan, symbol, target, window_min)].price

RowsIn(table) == {table[i] : i \in DOMAIN table}

\* find_price_near("BTC", target, 10) in both runs, on tables of the same rows
RunNearest(target, plan) ==
    /\ RowsIn(runs["run1"].table) = RowsIn(runs["run2"].table)
    /\ tie' = [target |-> target, plan |-> plan,
               price |-> [r \in Runs |->
                   find_price_near_in(runs[r].table, plan, "BTC", target,
                                      EVAL_WINDOW_MIN)]]
    /\ UNCHANGED <<clock, runs>>
    /\ UNCHANGED <<gwVars, schedVars, startVars, dbVars, sessVars, cacheVars, raceVars,
                 lateVars>>

NoTie == [target |-> None, plan |-> "", price |-> [x \in Runs |-> None]]

TiesIdle ==
    /\ runs = [r \in Runs |-> [wall |-> 300, table |-> <<>>]]
    /\ tie = NoTie

(***************************************************************************)
(* Storage sessions: app/core/database.py db_session, and the              *)
(* `with _db_lock: conn = db_connect()` blocks of the request handlers      *)
(***************************************************************************)
DbThreads == {"scheduler", "worker1", "worker2"}

\* a lock that lets every caller through
DbLockIgnored == TRUE
\* _db_lock.acquire() returns only while no thread holds the lock
DbLockFree == db_lock = NoHolder

SessFrame ==
    UNCHANGED <<clock, gwVars, schedVars, startVars, dbVars, tieVars, cacheVars,
                raceVars, lateVars>>

\* a thread reaches `with db_session() as (conn, c)`
DbCall(t) ==
    /\ db_pc[t] = "idle"
    /\ db_sessions[t] < MaxSessions
    /\ db_pc' = [db_pc EXCEPT ![t] = "waiting"]
    /\ db_sessions' = [db_sessions EXCEPT ![t] = @ + 1]
    /\ UNCHANGED <<db_lock, db_conns, db_exc>>
    /\ SessFrame

\* line 111: _db_lock.acquire()
DbAcquire(t) ==
    /\ db_pc[t] = "waiting"
    /\ DbLockFree
    /\ db_lock' = t
    /\ db_pc' = [db_pc EXCEPT ![t] = "acquired"]
    /\ UNCHANGED <<db_conns, db_exc, db_sessions>>
    /\ SessFrame

\* lines 112-122: db_connect() and the cursor; __enter__ returns
DbConnect(t) ==
    /\ db_pc[t] = "acquired"
    /\ db_conns' = db_conns \cup {t}
    /\ db_exc' = [db_exc EXCEPT ![t] = FALSE]
    /\ db_pc' = [db_pc EXCEPT ![t] = "body"]
    /\ UNCHANGED <<db_lock, db_sessions>>
    /\ SessFrame

\* line 112: db_connect() raises; __enter__ has no try, the with statement
\* never calls __exit__ and the caller's handler runs with the lock held
DbConnectRaises(t) ==
    /\ db_pc[t] = "acquired"
    /\ db_pc' = [db_pc EXCEPT ![t] = "idle"]
    /\ UNCHANGED <<db_lock, db_conns, db_exc, db_sessions>>
    /\ SessFrame

\* the body of the with statement completes or raises
DbBody(t, raises) ==
    /\ db_pc[t] = "body"
    /\ db_exc' = [db_exc EXCEPT ![t] = raises]
    /\ db_pc' = [db_pc EXCEPT ![t] = "exit"]
    /\ UNCHANGED <<db_lock, db_conns, db_sessions>>
    /\ SessFrame

\* lines 126-130: commit on a clean exit, rollback otherwise (PostgreSQL);
\* whether or not it raises, the finally clause follows
DbCommit(t) ==
    /\ db_pc[t] = "exit"
    /\ db_pc' = [db_pc EXCEPT ![t] = "close"]
    /\ UNCHANGED <<db_lock, db_conns, db_exc, db_sessions>>
    /\ SessFrame

\* lines 132-133: self._conn.close()
DbClose(t) ==
    /\ db_pc[t] = "close"
    /\ db_conns' = db_conns \ {t}
    /\ db_pc' = [db_pc EXCEPT ![t] = "release"]
    /\ UNCHANGED <<db_lock, db_exc, db_sessions>>
    /\ SessFrame

\* line 135: _db_lock.release()
DbRelease(t) ==
    /\ db_pc[t] = "release"
    /\ db_lock' = NoHolder
    /\ db_pc' = [db_pc EXCEPT ![t] = "idle"]
    /\ UNCHANGED <<db_conns, db_exc, db_sessions>>
    /\ SessFrame

SessIdle ==
    /\ db_lock = NoHolder
    /\ db_pc = [t \in DbThreads |-> "idle"]
    /\ db_conns = {}
    /\ db_exc = [t \in DbThreads |-> FALSE]
    /\ db_sessions = [t \in DbThreads |-> 0]

(***************************************************************************)
(* The cache dict shared by the scheduler thread and the request handlers: *)
(* app/background.py lines 153-159, app/routes/data_routes.py              *)
(* get_long_short and get_market, app/core/cache.py build_api_meta          *)
(***************************************************************************)
SharedKeys == {"market", "long_short_ratio"}
\* the series a request handler fetches itself while the cached value is empty
LazyFilled == {"long_short_ratio"}
Empty == 0
Threads == {"scheduler", "request"}

CacheFrame ==
    UNCHANGED <<gwVars, schedVars, startVars, dbVars, tieVars, sessVars,
                raceVars, lateVars>>

NoWriter == [pc |-> "idle", key |-> "", now |-> None]
NoHandler == [pc |-> "idle", key |-> "", data |-> Empty, updated |-> None]

\* cache[k]["data"] = data
WriteData(k, data) == [entries EXCEPT ![k].data = data]
\* cache[k]["updated"] = t
WriteUpdated(k, t) == [entries EXCEPT ![k].updated = t]

\* background.py 154-155: the series is stale, the fetch returns and its
\* value is assigned; `now` is the time read at the top of the pass
SchedWriteData(k) ==
    /\ writer.pc = "idle"
    /\ nfetch < MaxRefreshes
    /\ clock - entries[k].updated > TTL(k)
    /\ nfetch' = nfetch + 1
    /\ entries' = WriteData(k, nfetch + 1)
    /\ writer' = [pc |-> "data", key |-> k, now |-> clock]
    /\ refreshes' = refreshes \cup
           {[key |-> k, data |-> nfetch + 1, updated |-> clock,
             by |-> "scheduler"]}
    /\ UNCHANGED <<clock, handler>>
    /\ CacheFrame

\* background.py 156: cache[k]["updated"] = now
SchedWriteUpdated ==
    /\ writer.pc = "data"
    /\ entries' = WriteUpdated(writer.key, writer.now)
    /\ writer' = NoWriter
    /\ UNCHANGED <<clock, handler, refreshes, nfetch>>
    /\ CacheFrame

\* background.py 158-159: the fetch raised, nothing is assigned
SchedFetchRaises(k) ==
    /\ writer.pc = "idle"
    /\ nfetch < MaxRefreshes
    /\ clock - entries[k].updated > TTL(k)
    /\ nfetch' = nfetch + 1
    /\ UNCHANGED <<clock, entries, writer, handler, refreshes>>
    /\ CacheFrame

\* data_routes.py 113 and 341: data = cache[k]["data"]
ReqReadData(k) ==
    /\ handler.pc \in {"idle", "done"}
    /\ handler' = [pc |-> IF k \in LazyFilled /\ entries[k].data = Empty
                            THEN "fetch" ELSE "meta",
                   key |-> k, data |-> entries[k].data, updated |-> None]
    /\ UNCHANGED <<clock, entries, writer, refreshes, nfetch>>
    /\ CacheFrame

\* data_routes.py 114-115: `if not data: data = _fetch_ls()`, returning a value
ReqFetch ==
    /\ handler.pc = "fetch"
    /\ nfetch < MaxRefreshes
    /\ nfetch' = nfetch + 1
    /\ handler' = [handler EXCEPT !.pc = "write_data", !.data = nfetch + 1]
    /\ UNCHANGED <<clock, entries, writer, refreshes>>
    /\ CacheFrame

\* data_routes.py 115-116: the fetch returned nothing, `if data:` is false
ReqFetchEmpty ==
    /\ handler.pc = "fetch"
    /\ nfetch < MaxRefreshes
    /\ nfetch' = nfetch + 1
    /\ handler' = [handler EXCEPT !.pc = "meta"]
    /\ UNCHANGED <<clock, entries, writer, refreshes>>
    /\ CacheFrame

\* data_routes.py 116: cache["long_short_ratio"]["data"] = data
ReqWriteData ==
    /\ handler.pc = "write_data"
    /\ entries' = WriteData(handler.key, handler.data)
    /\ refreshes' = IF entries' = entries THEN refreshes
                     ELSE refreshes \cup
                          {[key |-> handler.key, data |-> handler.data,
                            updated |-> None, by |-> "request"]}
    /\ handler' = [handler EXCEPT !.pc = "write_updated"]
    /\ UNCHANGED <<clock, writer, nfetch>>
    /\ CacheFrame

\* data_routes.py 117: cache["long_short_ratio"]["updated"] = time.time()
ReqWriteUpdated ==
    /\ handler.pc = "write_updated"
    /\ entries' = WriteUpdated(handler.key, clock)
    /\ refreshes' =
           {IF r.by = "request" /\ r.data = handler.data
                THEN [r EXCEPT !.updated = clock] ELSE r : r \in refreshes}
    /\ handler' = [handler EXCEPT !.pc = "meta"]
    /\ UNCHANGED <<clock, writer, nfetch>>
    /\ CacheFrame

\* cache.py 37-38, called at data_routes.py 123 and 348:
\* entry = cache.get(cache_key, {}); updated = entry.get("updated", 0)
build_api_meta ==
    /\ handler.pc = "meta"
    /\ handler' = [handler EXCEPT !.pc = "done",
                                  !.updated = entries[handler.key].updated]
    /\ UNCHANGED <<clock, entries, writer, refreshes, nfetch>>
    /\ CacheFrame

\* time passes between any two steps of either thread
CacheTime ==
    /\ clock < 61 * MaxRefreshes
    /\ clock' = clock + 61
    /\ UNCHANGED cacheVars
    /\ CacheFrame

\* cache.py 13-32: every series starts empty with updated 0
CacheIdle ==
    /\ entries = [k \in SharedKeys |-> [data |-> Empty, updated |-> 0]]
    /\ writer = NoWriter
    /\ handler = NoHandler
    /\ refreshes = {}
    /\ nfetch = 0

(***************************************************************************)
(* Concurrent calls of resilient_get: the scheduler thread and a request   *)
(* worker share _api_429_backoff and _api_fail_count without a lock.  One  *)
(* call is three steps: the backoff test of line 23, requests.get of line  *)
(* 29 leaving the process, and the handling of its result (lines 30-64).   *)
(***************************************************************************)
GetThreads == {"scheduler", "worker"}
RaceDomain == "api.binance.com"
NoGet == [pc |-> "idle", dom |-> "", now |-> None]

RaceFrame ==
    UNCHANGED <<gets, last, run429, schedVars, startVars, dbVars, tieVars,
                sessVars, cacheVars, lateVars>>

\* lines 20-26: now = time.time(); the domain is in backoff, the call raises
GetFailFast(t, d) ==
    /\ inflight[t].pc = "idle"
    /\ race_calls < MaxRaceCalls
    /\ InBackoff(d)
    /\ race_calls' = race_calls + 1
    /\ UNCHANGED <<clock, api_429_backoff, api_fail_count, net_calls,
                   inflight, sends>>
    /\ RaceFrame

\* lines 20-23: now = time.time(); the domain is not in backoff
GetCheck(t, d) ==
    /\ inflight[t].pc = "idle"
    /\ race_calls < MaxRaceCalls
    /\ ~InBackoff(d)
    /\ race_calls' = race_calls + 1
    /\ inflight' = [inflight EXCEPT ![t] =
                        [pc |-> "checked", dom |-> d, now |-> clock]]
    /\ UNCHANGED <<clock, api_429_backoff, api_fail_count, net_calls, sends>>
    /\ RaceFrame

\* line 29: requests.get(url, ...) sends the request
GetSend(t) ==
    /\ inflight[t].pc = "checked"
    /\ inflight' = [inflight EXCEPT ![t].pc = "sent"]
    /\ net_calls' = [net_calls EXCEPT ![inflight[t].dom] = @ + 1]
    /\ sends' = sends \cup
           {[dom |-> inflight[t].dom, at |-> clock,
             until |-> api_429_backoff[inflight[t].dom]]}
    /\ UNCHANGED <<clock, api_429_backoff, api_fail_count, race_calls>>
    /\ RaceFrame

\* lines 30-46: status 429; the deadline is computed from the call's own now
GetResp429(t, h) ==
    LET d == inflight[t].dom
        fails == api_fail_count[d] + 1
    IN  /\ inflight[t].pc = "sent"
        /\ api_fail_count' = [api_fail_count EXCEPT ![d] = fails]
        /\ api_429_backoff' =
               [api_429_backoff EXCEPT ![d] =
                    inflight[t].now + Backoff(RetryAfter(h), fails)]
        /\ inflight' = [inflight EXCEPT ![t] = NoGet]
        /\ UNCHANGED <<clock, net_calls, sends, race_calls>>
        /\ RaceFrame

\* lines 47-54: status 418
GetResp418(t) ==
    LET d == inflight[t].dom
    IN  /\ inflight[t].pc = "sent"
        /\ api_fail_count' = [api_fail_count EXCEPT ![d] = @ + 1]
        /\ api_429_backoff' =
               [api_429_backoff EXCEPT ![d] = inflight[t].now + BanCooldown]
        /\ inflight' = [inflight EXCEPT ![t] = NoGet]
        /\ UNCHANGED <<clock, net_calls, sends, race_calls>>
        /\ RaceFrame

\* lines 55-59: any other status, the response is returned
GetRespOther(t) ==
    LET d == inflight[t].dom
    IN  /\ inflight[t].pc = "sent"
        /\ api_fail_count' = [api_fail_count EXCEPT ![d] = ResetCount(@)]
        /\ inflight' = [inflight EXCEPT ![t] = NoGet]
        /\ UNCHANGED <<clock, api_429_backoff, net_calls, sends, race_calls>>
        /\ RaceFrame

\* lines 60-64: requests.get raised without a response
GetTransportError(t) ==
    LET d == inflight[t].dom
    IN  /\ inflight[t].pc = "sent"
        /\ api_fail_count' = [api_fail_count EXCEPT ![d] = @ + 1]
        /\ inflight' = [inflight EXCEPT ![t] = NoGet]
        /\ UNCHANGED <<clock, api_429_backoff, net_calls, sends, race_calls>>
        /\ RaceFrame

RaceIdle ==
    /\ inflight = [t \in GetThreads |-> NoGet]
    /\ sends = {}
    /\ race_calls = 0

(***************************************************************************)
(* The evaluator's batch write: app/core/database.py lines 1102-1135, one  *)
(* db_session in which every row of eval_batch is executed, committed by   *)
(* db_session.__exit__.  The evaluator runs on the scheduler thread; the   *)
(* request workers open sessions of their own.                             *)
(***************************************************************************)
Evaluator == "scheduler"
Workers == DbThreads \ {Evaluator}
\* council ids a batch may hold
BatchIds == {1, 2}
BatchesOf(run) == {<<[run |-> run, id |-> 1]>>,
                   <<[run |-> run, id |-> 1], [run |-> run, id |-> 2]>>}

BatchFrame ==
    UNCHANGED <<clock, gwVars, schedVars, startVars, dbVars, tieVars, cacheVars,
                raceVars, alertVars>>

\* line 1103: `if eval_batch:` then `with db_session() as (conn, c):`
BatchBegin(batch) ==
    /\ db_pc[Evaluator] = "idle"
    /\ db_sessions[Evaluator] < MaxSessions
    /\ db_pc' = [db_pc EXCEPT ![Evaluator] = "waiting"]
    /\ db_sessions' = [db_sessions EXCEPT ![Evaluator] = @ + 1]
    /\ eval_batch' = batch
    /\ batch_rows' = {batch[i] : i \in DOMAIN batch}
    /\ tx_rows' = {}
    /\ UNCHANGED <<db_lock, db_conns, db_exc, visible>>
    /\ BatchFrame

\* a write that commits each row as it is executed
BatchRowAutocommit ==
    /\ db_pc[Evaluator] = "body"
    /\ eval_batch # <<>>
    /\ visible' = visible \cup {Head(eval_batch)}
    /\ eval_batch' = Tail(eval_batch)
    /\ UNCHANGED <<sessVars, batch_rows, tx_rows>>
    /\ BatchFrame

\* lines 1105-1124: c.execute(INSERT OR REPLACE ...) of one row, inside the
\* open transaction
BatchRow ==
    /\ db_pc[Evaluator] = "body"
    /\ eval_batch # <<>>
    /\ tx_rows' = tx_rows \cup {Head(eval_batch)}
    /\ eval_batch' = Tail(eval_batch)
    /\ UNCHANGED <<sessVars, batch_rows, visible>>
    /\ BatchFrame

\* an execute raises: the with block is left with the exception
BatchRowRaises ==
    /\ db_pc[Evaluator] = "body"
    /\ eval_batch # <<>>
    /\ db_exc' = [db_exc EXCEPT ![Evaluator] = TRUE]
    /\ db_pc' = [db_pc EXCEPT ![Evaluator] = "exit"]
    /\ UNCHANGED <<db_lock, db_conns, db_sessions, batchVars>>
    /\ BatchFrame

\* the for loop is exhausted: the with block ends normally
BatchDone ==
    /\ db_pc[Evaluator] = "body"
    /\ eval_batch = <<>>
    /\ db_exc' = [db_exc EXCEPT ![Evaluator] = FALSE]
    /\ db_pc' = [db_pc EXCEPT ![Evaluator] = "exit"]
    /\ UNCHANGED <<db_lock, db_conns, db_sessions, batchVars>>
    /\ BatchFrame

\* database.py 125-129: commit on a clean exit makes the transaction's rows
\* visible together; a failing commit, a rollback, or closing without commit
\* discards them
BatchCommit(commits) ==
    /\ db_pc[Evaluator] = "exit"
    /\ visible' = IF commits /\ ~db_exc[Evaluator]
                   THEN visible \cup tx_rows ELSE visible
    /\ tx_rows' = {}
    /\ db_pc' = [db_pc EXCEPT ![Evaluator] = "close"]
    /\ UNCHANGED <<db_lock, db_conns, db_exc, db_sessions, eval_batch,
                   batch_rows>>
    /\ BatchFrame

BatchIdle ==
    /\ eval_batch = <<>>
    /\ batch_rows = {}
    /\ tx_rows = {}
    /\ visible = {}

(***************************************************************************)
(* Price alerts: app/background.py check_price_alerts,                     *)
(* app/routes/user_routes.py create_alert and delete_alert                  *)
(***************************************************************************)
MaxAlerts == 2
MaxChecks == 2

AlertSymbols == {"BTC", "ETH"}
AlertPrices == {100, 110}
AlertTargets == {100}
Directions == {"above", "below"}

AlertFrame ==
    UNCHANGED <<clock, gwVars, schedVars, startVars, dbVars, tieVars, sessVars,
                cacheVars, raceVars, batchVars>>

\* user_routes.py lines 117-124: INSERT INTO price_alerts; the id comes from
\* the AUTOINCREMENT key, triggered defaults to 0
create_alert(symbol, target_price, direction) ==
    /\ alert_seq < MaxAlerts
    /\ alert_seq' = alert_seq + 1
    /\ price_alerts' = price_alerts \cup
           {[id |-> alert_seq + 1, symbol |-> symbol,
             target_price |-> target_price, direction |-> direction,
             triggered |-> 0]}
    /\ UNCHANGED <<market, notified, last_check>>
    /\ AlertFrame

\* user_routes.py line 143: DELETE FROM price_alerts WHERE id = ? AND uid = ?
delete_alert(alert_id) ==
    /\ \E a \in price_alerts : a.id = alert_id
    /\ price_alerts' = {a \in price_alerts : a.id # alert_id}
    /\ UNCHANGED <<alert_seq, market, notified, last_check>>
    /\ AlertFrame

\* background.py lines 153-159: the scheduler writes cache["market"]["data"]
MarketWritten(prices) ==
    /\ market' = prices
    /\ market' # market
    /\ UNCHANGED <<price_alerts, alert_seq, notified, last_check>>
    /\ AlertFrame

AllAlerts == price_alerts

\* line 79: SELECT ... FROM price_alerts WHERE triggered = 0
ActiveAlerts == {a \in price_alerts : a.triggered = 0}

HitStrict(direction, current, target) ==
    \/ direction = "above" /\ current > target
    \/ direction = "below" /\ current < target

\* lines 85-92: skipped without a cached price; hit when the price has
\* reached the target in the alert's direction
AlertHit(direction, current, target) ==
    \/ direction = "above" /\ current >= target
    \/ direction = "below" /\ current <= target

Triggered(alerts) ==
    {a \in alerts :
        /\ market[a.symbol] # None
        /\ AlertHit(a.direction, market[a.symbol], a.target_price)}

\* if not market: return
MarketEmpty == \A sym \in AlertSymbols : market[sym] = None

\* check_price_alerts(): the session selects the active alerts and updates
\* the hit ones; the notifications follow the session.  An exception in the
\* session discards its updates and skips the notifications; one raised by
\* close() after the commit keeps the updates and skips the notifications.
check_price_alerts ==
    LET hits == Triggered(ActiveAlerts)
        updated == {IF a \in hits THEN [a EXCEPT !.triggered = 1] ELSE a :
                       a \in price_alerts}
        n == last_check.n + 1
    IN  /\ last_check.n < MaxChecks
        /\ \/ /\ MarketEmpty
              /\ last_check' = [n |-> n, outcome |-> "no_market"]
              /\ UNCHANGED <<price_alerts, notified>>
           \/ /\ ~MarketEmpty
              /\ last_check' = [n |-> n, outcome |-> "committed"]
              /\ price_alerts' = updated
              /\ notified' = notified \cup {[id |-> a.id, check |-> n] : a \in hits}
           \/ /\ ~MarketEmpty
              /\ last_check' = [n |-> n, outcome |-> "session_raised"]
              /\ UNCHANGED <<price_alerts, notified>>
           \/ /\ ~MarketEmpty
              /\ last_check' = [n |-> n, outcome |-> "close_raised"]
              /\ price_alerts' = updated
              /\ UNCHANGED notified
        /\ UNCHANGED <<alert_seq, market>>
        /\ AlertFrame

NoCheck == [n |-> 0, outcome |-> "none"]

AlertsIdle ==
    /\ price_alerts = {}
    /\ alert_seq = 0
    /\ market = [sym \in AlertSymbols |-> None]
    /\ notified = {}
    /\ last_check = NoCheck

LateIdle ==
    /\ BatchIdle
    /\ AlertsIdle

ExtIdle ==
    /\ TiesIdle
    /\ SessIdle
    /\ CacheIdle
    /\ RaceIdle
    /\ LateIdle

NoStore == [symbol |-> "", source |-> "", price |-> None, ts_utc |-> None,
            before |-> <<>>]
NoFind == [symbol |-> "", target |-> None, window_min |-> None, price |-> None]

DbIdle ==
    /\ price_snapshots = <<>>
    /\ council_history = <<>>
    /\ council_eval = {}
    /\ last_store = NoStore
    /\ found = NoFind
    /\ eval_log = {}
    /\ last_run = {}
    /\ failed = NoFailure
    /\ summary = NoSummary

(***************************************************************************)
(* Specifications                                                          *)
(***************************************************************************)
StartupIdle ==
    /\ bg_started = FALSE
    /\ bg_lock = NoHolder
    /\ bg_threads = <<>>
    /\ st_pc = [c \in Callers |-> "idle"]
    /\ st_done = [c \in Callers |-> 0]
    /\ first_guard = NoHolder

SchedIdle ==
    /\ cache = <<>>
    /\ now = 0
    /\ pc = 0
    /\ ran = <<>>
    /\ raised = {}
    /\ fetch_calls = <<>>
    /\ tick = <<>>
    /\ last_auto_council = 0
    /\ failures = 0

GatewayIdle ==
    /\ api_429_backoff = [d \in Domains |-> NoEntry]
    /\ api_fail_count = [d \in Domains |-> 0]
    /\ net_calls = [d \in Domains |-> 0]
    /\ gets = 0
    /\ last = NoCall
    /\ run429 = [d \in Domains |-> <<>>]

(***************************************************************************)
(* The snapshot side task of a tick: app/background.py lines 351-356,      *)
(* app/core/database.py fetch_btc_price_binance and store_price_snapshot,   *)
(* with the gateway call and the storage session the task makes            *)
(***************************************************************************)
\* the host of the price source, one of the domains the gateway keeps
\* state for
PriceDomain == "api.binance.com"

PriceNotNone(price) == price # None

\* line 1007: `if not price or price <= 0: return`
PriceUsable(price) == ~(price = None \/ price = 0 \/ price <= 0)

\* fetch_btc_price_binance(): the call through the gateway, raise_for_status
\* and float(resp.json()["price"]) inside `try ... except Exception: return
\* None`; `price` is what the function returns
fetch_btc_price_binance(price) ==
    /\ \/ /\ price = None
          /\ \/ FailFast(PriceDomain)
             \/ \E h \in RetryAfterHeaders : Resp429(PriceDomain, h)
             \/ \E h \in {NoHeader} : Resp418(PriceDomain, h)
             \/ TransportError(PriceDomain)
             \/ \E s \in OtherStatuses : RespOther(PriceDomain, s)
       \/ /\ price # None
          /\ RespOther(PriceDomain, 200)
    /\ UNCHANGED gets

\* lines 1009-1023: the insert in its own storage session; an exception of
\* the session is logged.  A failure while the connection is opened leaves
\* the lock held (database.py lines 111-112), a failure of the statement or
\* of the commit discards the insert and releases the lock.
SnapshotInsert(row) ==
    /\ db_lock = NoHolder
    /\ \/ /\ price_snapshots' = InsertOrIgnore(row)
          /\ db_exc' = [db_exc EXCEPT ![Evaluator] = FALSE]
          /\ UNCHANGED db_lock
       \/ /\ db_exc' = [db_exc EXCEPT ![Evaluator] = TRUE]
          /\ UNCHANGED <<price_snapshots, db_lock>>
       \/ /\ db_exc' = [db_exc EXCEPT ![Evaluator] = TRUE]
          /\ db_lock' = Evaluator
          /\ UNCHANGED price_snapshots
    /\ UNCHANGED <<db_pc, db_conns, db_sessions>>

\* background.py lines 351-356: try: store_price_snapshot("BTC", "binance")
SnapshotTask ==
    /\ InTick /\ Current = "snapshot"
    /\ \E price \in FetchedPrices :
           /\ fetch_btc_price_binance(price)
           /\ last_store' = [symbol |-> "BTC", source |-> "binance",
                             price |-> price, ts_utc |-> utc_now_str,
                             before |-> price_snapshots,
                             fetch |-> last'.outcome]
           /\ IF PriceUsable(price)
              THEN SnapshotInsert([ts_utc |-> utc_now_str, symbol |-> "BTC",
                                   price |-> price, source |-> "binance"])
              ELSE UNCHANGED <<price_snapshots, sessVars>>
    /\ Done("snapshot")
    /\ UNCHANGED <<clock, cache, now, tick, fetch_calls, last_auto_council>>
    /\ UNCHANGED <<council_history, council_eval, found, eval_log, last_run,
                   failed, summary>>
    /\ UNCHANGED <<startVars, tieVars, cacheVars, raceVars, lateVars>>

\* check_price_alerts opens a storage session when the cached market value
\* is not empty, evaluate_council_accuracy always, cleanup_rate_limits never
NeedsStorage(step) ==
    \/ step = "eval"
    \/ step = "alerts" /\ cache["market"].data # 0

\* background.py lines 358-373: the side tasks after the snapshot; one that
\* needs storage waits for the lock
LaterSideTask ==
    /\ InTick /\ Current \in SideTasks \ {"snapshot"}
    /\ NeedsStorage(Current) => db_lock = NoHolder
    /\ \/ Done(Current)
       \/ Raise(Current)
    /\ UNCHANGED <<clock, now, tick, cache, fetch_calls, last_auto_council>>
    /\ UNCHANGED <<gwVars, startVars, dbVars, extVars>>

\* The first tick of the scheduler after every series was fetched and the
\* council, the risk gauge and the briefing were written: the tick is about
\* to run its side tasks
FirstSideTask == CHOOSE i \in 1..NSteps : Steps[i] = "snapshot"
InitSnapshotTask ==
    /\ clock = StartTime
    /\ GatewayIdle
    /\ now = StartTime
    /\ pc = FirstSideTask
    /\ ran = SubSeq(Steps, 1, FirstSideTask - 1)
    /\ raised = {}
    /\ fetch_calls = [s \in Series |-> 1]
    /\ cache = [k \in CacheKeys |->
                   IF k = "latest_briefing" THEN [data |-> 1, updated |-> 0]
                   ELSE [data |-> 1, updated |-> StartTime]]
    /\ tick = [n |-> 1,
               cache0 |-> [k \in CacheKeys |-> [data |-> 0, updated |-> 0]],
               calls0 |-> [s \in Series |-> 0]]
    /\ last_auto_council = StartTime
    /\ failures = 0
    /\ StartupIdle
    /\ DbIdle
    /\ ExtIdle

\* requests of other threads to the price source's host go through the same
\* gateway state
NextSnapshotTask ==
    \/ resilient_get(PriceDomain)
    \/ SnapshotTask
    \/ LaterSideTask

SpecSnapshotTask == InitSnapshotTask /\ [][NextSnapshotTask]_vars

\* An empty price_alerts table and an empty market value
InitAlerts ==
    /\ clock = 0
    /\ GatewayIdle
    /\ SchedIdle
    /\ StartupIdle
    /\ DbIdle
    /\ ExtIdle

NextAlerts ==
    \/ \E symbol \in AlertSymbols, target \in AlertTargets, direction \in Directions :
           create_alert(symbol, target, direction)
    \/ \E alert_id \in 1..MaxAlerts : delete_alert(alert_id)
    \/ \E prices \in [AlertSymbols -> AlertPrices \cup {None}] :
           MarketWritten(prices)
    \/ check_price_alerts

SpecAlerts == InitAlerts /\ [][NextAlerts]_vars

InitGateway ==
    /\ clock = 0
    /\ GatewayIdle
    /\ SchedIdle
    /\ StartupIdle
    /\ DbIdle
    /\ ExtIdle

NextGateway ==
    \/ \E d \in Domains : resilient_get(d)
    \/ \E t \in AdvanceTargets : Advance(t)

SpecGateway == InitGateway /\ [][NextGateway]_vars

\* app/core/cache.py: every entry starts empty with updated = 0
InitScheduler ==
    /\ clock = StartTime
    /\ GatewayIdle
    /\ cache = [k \in CacheKeys |-> [data |-> 0, updated |-> 0]]
    /\ now = 0
    /\ pc = 0
    /\ ran = <<>>
    /\ raised = {}
    /\ fetch_calls = [s \in Series |-> 0]
    /\ tick = [n |-> 0, cache0 |-> [k \in CacheKeys |-> [data |-> 0, updated |-> 0]],
               calls0 |-> [s \in Series |-> 0]]
    /\ last_auto_council = 0
    /\ failures = 0
    /\ StartupIdle
    /\ DbIdle
    /\ ExtIdle

NextScheduler ==
    \/ BeginTick
    \/ SeriesStep
    \/ AutoCouncilStep
    \/ RiskGaugeStep
    \/ BriefingStep
    \/ SideTaskStep
    \/ Sleep

SpecScheduler == InitScheduler /\ [][NextScheduler]_vars

\* module import: _bg_started = False, the lock free, no call made yet
InitStartup ==
    /\ clock = 0
    /\ GatewayIdle
    /\ SchedIdle
    /\ StartupIdle
    /\ DbIdle
    /\ ExtIdle

NextStartup == \E c \in Callers : startup_background_tasks(c)

SpecStartup == InitStartup /\ [][NextStartup]_vars

\* An empty price_snapshots table
InitSnapshots ==
    /\ clock = 0
    /\ GatewayIdle
    /\ SchedIdle
    /\ StartupIdle
    /\ DbIdle
    /\ ExtIdle

NextSnapshots ==
    \/ \E symbol \in Symbols, source \in Sources, price \in FetchedPrices :
           store_price_snapshot(symbol, source, price)
    \/ \E symbol \in Symbols, target \in Targets, window_min \in Windows :
           FindPriceNear(symbol, target, window_min)
    \/ \E t \in Instants : TimePasses(t)

SpecSnapshots == InitSnapshots /\ [][NextSnapshots]_vars

\* Empty tables
InitEvaluator ==
    /\ clock = 0
    /\ GatewayIdle
    /\ SchedIdle
    /\ StartupIdle
    /\ DbIdle
    /\ ExtIdle

NextEvaluator ==
    \/ \E prediction \in Predictions, btc_price \in BasePrices :
           save_council_record(prediction, btc_price)
    \/ \E price \in EvalPrices : store_price_snapshot("BTC", "binance", price)
    \/ evaluate_council_accuracy(HorizonsMin)
    \/ \E t \in EvalInstants : TimePasses(t)

SpecEvaluator == InitEvaluator /\ [][NextEvaluator]_vars

\* Two runs, each with an empty price_snapshots table
InitTies ==
    /\ clock = 0
    /\ GatewayIdle
    /\ SchedIdle
    /\ StartupIdle
    /\ DbIdle
    /\ ExtIdle

NextTies ==
    \/ \E r \in Runs, price \in TiePrices : RunStore(r, price)
    \/ \E r \in Runs, t \in TieInstants : RunClock(r, t)
    \/ \E target \in TieInstants, plan \in Plans : RunNearest(target, plan)

SpecTies == InitTies /\ [][NextTies]_vars

\* Two ungraded predictions made at time 0, at time 3601
InitBatch ==
    /\ clock = 3601
    /\ GatewayIdle
    /\ SchedIdle
    /\ StartupIdle
    /\ ExtIdle
    /\ price_snapshots \in BatchTables
    /\ council_history \in BatchHistories
    /\ council_eval = {}
    /\ last_store = NoStore
    /\ found = NoFind
    /\ eval_log = {}
    /\ last_run = {}
    /\ failed = NoFailure
    /\ summary = NoSummary

NextBatch ==
    \/ evaluate_council_accuracy(HorizonsMin)
    \/ \E k \in DOMAIN HorizonsMin, id \in DOMAIN council_history :
           evaluate_council_accuracy_raising(HorizonsMin, k, id)
    \/ get_multi_horizon_accuracy

SpecBatch == InitBatch /\ [][NextBatch]_vars

InitSessions ==
    /\ clock = 0
    /\ SessIdle
    /\ RaceIdle
    /\ LateIdle
    /\ TiesIdle
    /\ CacheIdle
    /\ DbIdle
    /\ GatewayIdle
    /\ SchedIdle
    /\ StartupIdle

NextSessions ==
    \E t \in DbThreads :
        \/ DbCall(t)
        \/ DbAcquire(t)
        \/ DbConnect(t)
        \/ DbConnectRaises(t)
        \/ \E raises \in BOOLEAN : DbBody(t, raises)
        \/ DbCommit(t)
        \/ DbClose(t)
        \/ DbRelease(t)

SpecSessions == InitSessions /\ [][NextSessions]_vars

InitCache ==
    /\ clock = 61
    /\ CacheIdle
    /\ RaceIdle
    /\ LateIdle
    /\ TiesIdle
    /\ SessIdle
    /\ DbIdle
    /\ GatewayIdle
    /\ SchedIdle
    /\ StartupIdle

NextCache ==
    \/ \E k \in SharedKeys : SchedWriteData(k)
    \/ SchedWriteUpdated
    \/ \E k \in SharedKeys : SchedFetchRaises(k)
    \/ \E k \in SharedKeys : ReqReadData(k)
    \/ ReqFetch
    \/ ReqFetchEmpty
    \/ ReqWriteData
    \/ ReqWriteUpdated
    \/ build_api_meta
    \/ CacheTime

SpecCache == InitCache /\ [][NextCache]_vars

InitRace ==
    /\ clock = 0
    /\ GatewayIdle
    /\ SchedIdle
    /\ StartupIdle
    /\ DbIdle
    /\ ExtIdle

NextRace ==
    \/ \E t \in GetThreads : GetFailFast(t, RaceDomain)
    \/ \E t \in GetThreads : GetCheck(t, RaceDomain)
    \/ \E t \in GetThreads : GetSend(t)
    \/ \E t \in GetThreads, h \in {NoHeader, <<"3", "0">>} : GetResp429(t, h)
    \/ \E t \in GetThreads : GetResp418(t)
    \/ \E t \in GetThreads : GetRespOther(t)
    \/ \E t \in GetThreads : GetTransportError(t)
    \/ \E t \in AdvanceTargets : Advance(t)

SpecRace == InitRace /\ [][NextRace]_vars

InitBatchWrite ==
    /\ clock = 0
    /\ GatewayIdle
    /\ SchedIdle
    /\ StartupIdle
    /\ DbIdle
    /\ ExtIdle

NextBatchWrite ==
    \/ \E batch \in BatchesOf(db_sessions[Evaluator] + 1) : BatchBegin(batch)
    \/ BatchRow
    \/ BatchRowRaises
    \/ BatchDone
    \/ \E commits \in BOOLEAN : BatchCommit(commits)
    \/ \E t \in DbThreads :
           \/ DbAcquire(t)
           \/ DbConnect(t)
           \/ DbConnectRaises(t)
           \/ DbClose(t)
           \/ DbRelease(t)
    \/ \E t \in Workers :
           \/ DbCall(t)
           \/ \E raises \in BOOLEAN : DbBody(t, raises)
           \/ DbCommit(t)

SpecBatchWrite == InitBatchWrite /\ [][NextBatchWrite]_vars

\* A backlog: `n` predictions made at 00:00:00 while no snapshot was being
\* stored, then one prediction at 00:30:00 and a snapshot 15 minutes after it
Backlogs == {0, 1, 49, 50}
BacklogRow(t, prediction) ==
    [timestamp |-> t, btc_price |-> 100, prediction |-> prediction,
     return_pct |-> NULL, evaluated_at_utc |-> NULL, price_source |-> NULL]
BacklogHistory(n, prediction) ==
    [id \in 1..(n + 1) |->
        IF id <= n THEN BacklogRow(0, "BULL") ELSE BacklogRow(1800, prediction)]

InitBacklog ==
    /\ clock = 2701
    /\ \E n \in Backlogs, prediction \in Predictions :
           council_history = BacklogHistory(n, prediction)
    /\ \E price \in EvalPrices :
           price_snapshots = <<[ts_utc |-> 2700, symbol |-> "BTC",
                                price |-> price, source |-> "binance"]>>
    /\ council_eval = {}
    /\ last_store = NoStore
    /\ found = NoFind
    /\ eval_log = {}
    /\ last_run = {}
    /\ failed = NoFailure
    /\ summary = NoSummary
    /\ GatewayIdle
    /\ SchedIdle
    /\ StartupIdle
    /\ ExtIdle

\* the scheduler's tick, and the minute between two ticks
NextBacklog ==
    \/ evaluate_council_accuracy(HorizonsMin)
    \/ \E t \in {2761, 2821, 5401} : TimePasses(t)

\* background.py 142, 371-375: `while True` runs the evaluation on every pass
SpecBacklog ==
    /\ InitBacklog
    /\ [][NextBacklog]_vars
    /\ WF_<<council_eval, last_run>>(evaluate_council_accuracy(HorizonsMin))

(***************************************************************************)
(* Claims about the gateway, stated over the last call's record: its       *)
(* inputs, the state it found (fail0, until0, net0, t) and the state it    *)
(* left.                                                                   *)
(***************************************************************************)
Called == last.dom # "none"
D == last.dom

\* Retry-After as the claims read it: the header's integer, 0 when the
\* header is absent or is not an integer
ClaimedRetryAfter(h) ==
    IF h = <<"3", "0">> THEN 30 ELSE 0

\* C1: a call for a domain whose backoff deadline lies ahead (now <
\* backoff_until) fails with an error, issues no network request and leaves
\* the failure counters and the deadlines as they were.
C1_FailFastNoRequest ==
    (Called /\ last.until0[D] # NoEntry /\ last.t < last.until0[D]) =>
        /\ last.raised
        /\ last.outcome = "failfast"
        /\ net_calls = last.net0
        /\ api_fail_count = last.fail0
        /\ api_429_backoff = last.until0

C1_Witness ==
    /\ Called
    /\ last.outcome = "failfast"
    /\ last.t = last.until0[D] - 1
    /\ last.fail0[D] >= 2

\* C2: a 429 response increments the domain's failure count by exactly 1, to
\* f, sets backoff_until = now + max(RetryAfter, min(45, 10 * 2^(f-1))) and
\* raises.
C2_Backoff429 ==
    (Called /\ last.sent /\ last.status = 429) =>
        LET f == last.fail0[D] + 1
        IN  /\ api_fail_count[D] = f
            /\ api_429_backoff[D] =
                   last.t + Max(ClaimedRetryAfter(last.header),
                                Min(45, 10 * 2^(f - 1)))
            /\ last.raised
            /\ \A e \in Domains \ {D} :
                   /\ api_fail_count[e] = last.fail0[e]
                   /\ api_429_backoff[e] = last.until0[e]

C2_Witness ==
    /\ Called /\ last.sent /\ last.status = 429
    /\ last.header = <<"3", "0">>
    /\ last.fail0[D] = 2
    /\ api_429_backoff[D] = last.t + 40

\* The scenario of C3 on domain d: three 429s in a row from zero failures,
\* none with a Retry-After header
ThreePlain429s(d) ==
    /\ Len(run429[d]) >= 3
    /\ \A i \in 1..3 : run429[d][i].fails = i /\ run429[d][i].no_header

BackoffsOf(d, n) == [i \in 1..n |-> run429[d][i].backoff]

\* C3 as stated: three consecutive 429s without Retry-After, from zero
\* failures, back off 10 s, 20 s, 45 s.
C3_AsStated ==
    \A d \in Domains :
        ThreePlain429s(d) => BackoffsOf(d, 3) = <<10, 20, 45>>

\* C3 amended: the three backoffs are 10 s, 20 s, 40 s; the cap of 45 s is
\* reached by the fourth consecutive 429.
C3_Sequence ==
    \A d \in Domains :
        ThreePlain429s(d) =>
            /\ BackoffsOf(d, 3) = <<10, 20, 40>>
            /\ (Len(run429[d]) >= 4 /\ run429[d][4].fails = 4
                    /\ run429[d][4].no_header)
                   => run429[d][4].backoff = 45

C3_Witness ==
    \E d \in Domains :
        /\ ThreePlain429s(d)
        /\ Len(run429[d]) = 4 /\ run429[d][4].fails = 4
        /\ run429[d][4].no_header

\* C4 as stated: along a run of 429s with no success in between the computed
\* backoffs never decrease, whatever Retry-After headers are sent.
C4_AsStated ==
    \A d \in Domains : \A i, j \in 1..Len(run429[d]) :
        i < j => run429[d][i].backoff <= run429[d][j].backoff

\* C4 amended: along such a run the backoffs never decrease from one 429 to
\* the next unless the Retry-After value decreases, and a backoff computed
\* without a positive Retry-After never exceeds the cap of 45 s.
C4_Monotone ==
    \A d \in Domains : \A i \in 1..Len(run429[d]) :
        /\ (i > 1 /\ run429[d][i - 1].retry_after <= run429[d][i].retry_after)
               => run429[d][i - 1].backoff <= run429[d][i].backoff
        /\ run429[d][i].retry_after <= 0 => run429[d][i].backoff <= 45

C4_Witness ==
    \E d \in Domains :
        /\ Len(run429[d]) = 3
        /\ run429[d][1].retry_after = 0
        /\ run429[d][2].retry_after = 30
        /\ run429[d][3].backoff = 40

\* C5: a 418 response increments the failure count by exactly 1, sets
\* backoff_until = now + 90 whatever the count and the Retry-After header,
\* and raises.
C5_Ban418 ==
    (Called /\ last.sent /\ last.status = 418) =>
        /\ api_fail_count[D] = last.fail0[D] + 1
        /\ api_429_backoff[D] = last.t + 90
        /\ last.raised

C5_Witness ==
    /\ Called /\ last.sent /\ last.status = 418
    /\ last.header = <<"3", "0">>
    /\ last.fail0[D] = 3

\* C6: a call that reached the network and failed (429, 418 or a transport
\* error) leaves the failure count exactly 1 higher, never 2, and the error
\* reaches the caller.
C6_CountedOnce ==
    (Called /\ last.sent
        /\ last.outcome \in {"http429", "http418", "transport"}) =>
        /\ api_fail_count[D] = last.fail0[D] + 1
        /\ last.raised
        /\ last.exc = (IF last.outcome = "transport" THEN "Timeout"
                       ELSE "HTTPError")

C6_Witness ==
    /\ Called /\ last.sent /\ last.outcome = "transport"
    /\ last.fail0[D] = 2
    /\ Len(run429[D]) = 1

\* C7: after a 2xx response the domain's failure count is 0 and the response
\* is returned without error, whatever the count was before.
C7_SuccessResets ==
    (Called /\ last.sent /\ last.status = 200) =>
        /\ api_fail_count[D] = 0
        /\ ~last.raised
        /\ last.outcome = "returned"

C7_Witness ==
    /\ Called /\ last.sent /\ last.status = 200
    /\ last.fail0[D] = 3

(***************************************************************************)
(* Claims about the scheduler, stated over the current tick: `now`, the    *)
(* cache and the fetch call counts as the tick found them (tick.cache0,    *)
(* tick.calls0), the steps run so far and those that raised.               *)
(***************************************************************************)
Ticking == tick.n >= 1
AgeAtStart(s) == now - tick.cache0[s].updated
HasRun(step) == \E i \in 1..Len(ran) : ran[i] = step

\* C8: a series whose age at tick start is within its TTL is not fetched in
\* that tick: its fetch call count, value and last_refreshed stay as the
\* tick found them.
C8_FreshNotFetched ==
    Ticking =>
        \A s \in Series :
            AgeAtStart(s) <= TTL(s) =>
                /\ fetch_calls[s] = tick.calls0[s]
                /\ cache[s] = tick.cache0[s]

C8_Witness ==
    /\ pc = SleepPc
    /\ AgeAtStart("market") = TTL("market")
    /\ tick.cache0["market"].updated > 0
    /\ fetch_calls["news"] = tick.calls0["news"] + 1

C30_FailedDomainsReported ==
    \A d \in Domains :
        api_fail_count[d] > 0 =>
            /\ d \in DOMAIN get_api_health
            /\ get_api_health[d].fails = api_fail_count[d]

\* step b, once it has run in the current tick, was preceded by step a
RanBefore(a, b) ==
    \A j \in 1..Len(ran) :
        ran[j] = b => \E i \in 1..(j - 1) : ran[i] = a

\* C24 as stated: in every tick the side tasks run in the order snapshot,
\* evaluation of due predictions, alert check, rate-limiter cleanup.
C24_EvalBeforeAlerts ==
    Ticking =>
        /\ RanBefore("snapshot", "eval")
        /\ RanBefore("eval", "alerts")
        /\ RanBefore("alerts", "cleanup")

\* C24, amended: in every tick the side tasks run in the order snapshot,
\* alert check, rate-limiter cleanup, evaluation of due predictions, each
\* exactly once, and the tick reaches its sleep with all four run.
C24_SideTaskOrder ==
    Ticking =>
        /\ RanBefore("snapshot", "alerts")
        /\ RanBefore("alerts", "cleanup")
        /\ RanBefore("cleanup", "eval")
        /\ \A t \in SideTasks :
               Cardinality({i \in 1..Len(ran) : ran[i] = t}) <= 1
        /\ pc = SleepPc => \A t \in SideTasks : HasRun(t)

C24_Witness ==
    /\ pc = SleepPc
    /\ tick.n = 2
    /\ ran[Len(ran)] = "eval"
    /\ ran[Len(ran) - 3] = "snapshot"
    /\ "alerts" \in raised

IsSeries(step) == step \in Series
\* the order in which a pass checks the series
SeriesOrder ==
    << "news", "market", "fear_greed", "kimchi", "long_short_ratio",
       "long_short_history", "funding_rate", "liquidations", "heatmap",
       "multi_tf", "onchain", "scanner", "regime", "correlation",
       "whale_wallets", "liq_zones" >>
SeriesRan == SelectSeq(ran, IsSeries)
\* the market fetch of the current tick was made and returned
MarketRefreshed ==
    /\ HasRun("market")
    /\ fetch_calls["market"] = tick.calls0["market"] + 1
    /\ "market" \notin raised

\* C25: in every tick the series are checked in one fixed order; a side task
\* runs only after every series of that tick has been checked; and when the
\* market refresh of the tick succeeded, the alert check, at the moment it
\* starts and until the tick ends, finds in the cache the market value and
\* last_refreshed written in that same tick.
C25_SideTasksAfterSeries ==
    Ticking =>
        /\ SeriesRan = SubSeq(SeriesOrder, 1, Len(SeriesRan))
        /\ \A j \in 1..Len(ran) :
               ran[j] \in SideTasks =>
                   Series \subseteq {ran[i] : i \in 1..(j - 1)}
        /\ (InTick /\ Current \in SideTasks) => Len(SeriesRan) = Len(SeriesOrder)
        /\ (MarketRefreshed /\ (HasRun("alerts") \/ (InTick /\ Current = "alerts"))) =>
               cache["market"] = [data |-> tick.calls0["market"] + 1,
                                  updated |-> now]

C25_Witness ==
    /\ InTick /\ Current = "alerts"
    /\ tick.n = 2
    /\ MarketRefreshed
    /\ tick.cache0["market"].data = 1
    /\ cache["market"].data = 2
    /\ "news" \in raised

\* C11: no retry within a tick: each series' fetch function is called at
\* most once per tick, in the series' own step, and a series whose fetch
\* raised is not fetched again before a later tick.
C11_NoIntraTickRetry ==
    Ticking =>
        \A s \in Series :
            /\ fetch_calls[s] \in {tick.calls0[s], tick.calls0[s] + 1}
            /\ fetch_calls[s] = tick.calls0[s] + 1 => HasRun(s)
            /\ s \in raised =>
                   /\ fetch_calls[s] = tick.calls0[s] + 1
                   /\ Cardinality({i \in 1..Len(ran) : ran[i] = s}) = 1

C11_Witness ==
    /\ tick.n = 2
    /\ pc = SleepPc
    /\ tick.calls0["news"] = 1
    /\ tick.cache0["news"].updated = 0
    /\ fetch_calls["news"] = 2
    /\ cache["news"].updated = now

(***************************************************************************)
(* Claims about the startup guard (SpecStartup)                            *)
(***************************************************************************)
CallsDone == \E c \in Callers : st_done[c] > 0

\* C12: for any number of possibly concurrent calls of
\* startup_background_tasks, exactly one refresh thread is started: never
\* more than one, it is started by the first call to pass the guard, every
\* other call starts nothing, and once any call has returned it exists.
C12_OneScheduler ==
    /\ Len(bg_threads) <= 1
    /\ Len(bg_threads) = 1 => bg_threads[1] = first_guard /\ bg_started
    /\ CallsDone => Len(bg_threads) = 1
    /\ \A c \in Callers : st_pc[c] \in {"set", "start"} => c = first_guard

C12_Witness ==
    /\ Len(bg_threads) = 1
    /\ \A c \in Callers : st_done[c] = MaxStartupCalls

(***************************************************************************)
(* Claims about the prediction evaluator (SpecEvaluator)                   *)
(***************************************************************************)
PairOf(e) == <<e.council_id, e.horizon_min>>
RowsOf(id, h) == {e \in council_eval : PairOf(e) = <<id, h>>}
CreatedAt(e) == council_history[e.council_id].timestamp
DirectionOf(e) == Coalesce(council_history[e.council_id].prediction)
BasePriceOf(e) == council_history[e.council_id].btc_price

\* The BTC snapshots within 10 minutes of a pair's target time, bounds included
SnapshotsNear(id, h) ==
    {i \in DOMAIN price_snapshots :
        /\ price_snapshots[i].symbol = "BTC"
        /\ Abs(price_snapshots[i].ts_utc - (council_history[id].timestamp + h * 60))
               <= EVAL_WINDOW_MIN * 60}

\* C13: a (prediction, horizon) pair is graded at most once, to HIT, MISS or
\* EXCLUDED; once its row exists no later evaluator run changes it, and
\* there is never more than one row per pair.
C13_WriteOnce ==
    /\ \A e1, e2 \in council_eval : PairOf(e1) = PairOf(e2) => e1 = e2
    /\ \A e1, e2 \in eval_log : PairOf(e1) = PairOf(e2) => e1 = e2
    /\ council_eval = eval_log
    /\ \A e \in council_eval : e.hit \in {1, 0, -1}

C13_Witness ==
    /\ \E e \in council_eval :
           /\ e.horizon_min = 15
           /\ e.price_after = 95
           /\ e.evaluated_at_utc = CreatedAt(e) + 901
           /\ \E i \in DOMAIN price_snapshots :
                  /\ price_snapshots[i].ts_utc = CreatedAt(e) + 901
                  /\ price_snapshots[i].price = 105
           /\ last_run = {<<e.council_id, 60>>}
    /\ clock = 3601

\* C14: every evaluation row of (p, H) was written at a time
\* evaluated_at >= created_at(p) + H.
C14_NotBeforeHorizon ==
    \A e \in eval_log : e.evaluated_at_utc >= CreatedAt(e) + e.horizon_min * 60

C14_Witness ==
    /\ clock = 901
    /\ last_run = {<<1, 15>>}
    /\ RowsOf(1, 15) # {}
    /\ \E i \in DOMAIN price_snapshots : price_snapshots[i].ts_utc = 300

\* C15: a graded pair is EXCLUDED (hit = -1) exactly when the prediction's
\* direction is NEUTRAL, whatever price_after is.
C15_NeutralExcluded ==
    \A e \in eval_log : e.hit = -1 <=> DirectionOf(e) = "NEUTRAL"

C15_Witness ==
    \E e \in council_eval :
        /\ DirectionOf(e) = "NEUTRAL"
        /\ e.price_after > BasePriceOf(e)
        /\ e.hit = -1

\* C16: for a graded BULL or BEAR prediction the actual direction is BULL
\* if price_after > base_price and BEAR otherwise, and the outcome is HIT
\* (hit = 1) iff it equals the predicted direction, MISS (hit = 0) otherwise.
C16_HitOrMiss ==
    \A e \in eval_log :
        DirectionOf(e) \in {"BULL", "BEAR"} =>
            LET actual == IF e.price_after > BasePriceOf(e) THEN "BULL" ELSE "BEAR"
            IN  e.hit = IF actual = DirectionOf(e) THEN 1 ELSE 0

C16_Witness ==
    \E e \in council_eval :
        /\ DirectionOf(e) = "BULL"
        /\ BasePriceOf(e) = 100
        /\ e.horizon_min = 60
        /\ e.price_after = 105
        /\ e.hit = 1
        /\ \E i \in DOMAIN price_snapshots :
               /\ price_snapshots[i].ts_utc = CreatedAt(e) + 3600
               /\ price_snapshots[i].price = 105

\* C17: without a snapshot within 10 minutes of created_at(p) + H no run
\* writes a row for (p, H), and the prediction record keeps its empty
\* summary fields until the pair of the shortest horizon is graded.
C17_NoSnapshotNoRow ==
    /\ \A e \in eval_log :
           \E i \in SnapshotsNear(e.council_id, e.horizon_min) :
               price_snapshots[i].price = e.price_after
    /\ \A id \in DOMAIN council_history :
           RowsOf(id, 15) = {} =>
               /\ council_history[id].return_pct = NULL
               /\ council_history[id].evaluated_at_utc = NULL
               /\ council_history[id].price_source = NULL

C17_Witness ==
    /\ last_run = {<<1, 15>>, <<1, 60>>}
    /\ SnapshotsNear(1, 15) = {}
    /\ Len(price_snapshots) = 2
    /\ RowsOf(1, 15) = {}
    /\ RowsOf(1, 60) # {}
    /\ council_history[1].return_pct = NULL

(***************************************************************************)
(* Claims about the snapshot store (SpecSnapshots)                         *)
(***************************************************************************)
Stored == last_store # NoStore
SameKey(row, ts_utc, symbol) == row.ts_utc = ts_utc /\ row.symbol = symbol

\* The rows that were stored under the key of the last call before that call
EarlierRows ==
    {i \in DOMAIN last_store.before :
        SameKey(last_store.before[i], last_store.ts_utc, last_store.symbol)}

\* C18: recording is idempotent: a second write with the (timestamp, symbol)
\* of a stored row is a no-op, the stored price and source stay those of the
\* first write, and there is never more than one row per (timestamp, symbol).
C18_Idempotent ==
    /\ \A i, j \in DOMAIN price_snapshots :
           SameKey(price_snapshots[i], price_snapshots[j].ts_utc,
                   price_snapshots[j].symbol) => i = j
    /\ Stored /\ EarlierRows # {} => price_snapshots = last_store.before

C18_Witness ==
    /\ Stored
    /\ last_store.price = 105
    /\ last_store.source = "backup"
    /\ Len(price_snapshots) = 1
    /\ price_snapshots[1] = [ts_utc |-> last_store.ts_utc, symbol |-> last_store.symbol,
                             price |-> 100, source |-> "binance"]

Looked == found # NoFind

\* The rows of the looked-up symbol within the window, bounds included
WithinWindow ==
    {i \in DOMAIN price_snapshots :
        /\ price_snapshots[i].symbol = found.symbol
        /\ Abs(price_snapshots[i].ts_utc - found.target) <= found.window_min * 60}

NearestAfterStore(window_min) ==
    find_price_near(last_store.symbol, last_store.ts_utc, window_min)

Summarised == summary # NoSummary
OutcomeRows(h, hit) == {e \in council_eval : e.horizon_min = h /\ e.hit = hit}

\* x is num / den as a percentage, to the nearest tenth of a percent
NearestTenth(x, num, den) == 2 * Abs(x * den - 1000 * num) <= den

\* C22: per horizon the summary reports evaluated = HIT rows + MISS rows,
\* hits = HIT rows, accuracy_pct = hits / evaluated, coverage_pct =
\* evaluated / all rows (EXCLUDED included), no accuracy when evaluated = 0,
\* and 100 % / 50 % for one HIT and one EXCLUDED row.
C22_AccuracySummary ==
    Summarised =>
        \A h \in RangeOf(HORIZONS) :
            LET nHit == Cardinality(OutcomeRows(h, 1))
                nMiss == Cardinality(OutcomeRows(h, 0))
                nExcluded == Cardinality(OutcomeRows(h, -1))
            IN  /\ summary[h].evaluated = nHit + nMiss
                /\ summary[h].hits = nHit
                /\ nHit + nMiss = 0 => summary[h].accuracy_pct = None
                /\ nHit + nMiss > 0 =>
                       /\ NearestTenth(summary[h].accuracy_pct, nHit, nHit + nMiss)
                       /\ NearestTenth(summary[h].coverage_pct, nHit + nMiss,
                                       nHit + nMiss + nExcluded)
                /\ nHit = 1 /\ nMiss = 0 /\ nExcluded = 1 =>
                       /\ summary[h].accuracy_pct = 1000
                       /\ summary[h].coverage_pct = 500

C22_Witness ==
    /\ Summarised
    /\ Cardinality(OutcomeRows(15, 1)) = 1
    /\ Cardinality(OutcomeRows(15, -1)) = 1
    /\ summary[15].evaluated = 1
    /\ summary[15].accuracy_pct = 1000
    /\ summary[15].coverage_pct = 500
    /\ summary[60].accuracy_pct = None

RunRaised == failed # NoFailure

\* C23: when grading one prediction of a batch raises, every other pair the
\* run could grade, in that batch and at the remaining horizons, is graded
\* and persisted; only the failing pair stays without a row.
C23_FailureIsolated ==
    RunRaised =>
        /\ RowsOf(failed.pair[1], failed.pair[2]) = {}
        /\ \A pr \in failed.gradable \ {failed.pair} : RowsOf(pr[1], pr[2]) # {}

(***************************************************************************)
(* Claims about ties in find_price_near (SpecTies)                         *)
(***************************************************************************)
LookedInBoth == tie # NoTie

\* C21: two tables holding the same rows, inserted in different orders,
\* give the same price for every target, targets with two snapshots at
\* equal distance included.
C21_TiesIgnoreInsertionOrder ==
    LookedInBoth => tie.price["run1"] = tie.price["run2"]

\* What holds instead: the two runs agree whenever the rows come back in
\* index order, or no two candidates are at the same least distance.
C21_TiesFollowRowOrder ==
    LookedInBoth /\ tie.plan = "index" => tie.price["run1"] = tie.price["run2"]

C21_Witness ==
    /\ LookedInBoth
    /\ tie.plan = "index"
    /\ tie.target = 900
    /\ runs["run1"].table # runs["run2"].table
    /\ Len(runs["run1"].table) = 2
    /\ tie.price["run1"] = 100
    /\ \E i \in 1..2 : runs["run1"].table[i].price = 105

(***************************************************************************)
(* Claims about storage sessions (SpecSessions)                            *)
(***************************************************************************)
InSession(t) == db_pc[t] \in {"body", "exit", "close"}

\* C26: at most one storage session is open at any time: a thread's
\* connection is open only while that thread holds the storage lock, the
\* lock is taken before the connection is opened and given back only after
\* commit and close, so the sessions of the scheduler and of the request
\* workers never overlap.
C26_OneSessionAtATime ==
    /\ Cardinality(db_conns) <= 1
    /\ \A t \in DbThreads :
           /\ t \in db_conns <=> InSession(t)
           /\ (InSession(t) \/ db_pc[t] \in {"acquired", "release"}) => db_lock = t
    /\ db_lock = NoHolder => db_conns = {}
    /\ \A t, u \in DbThreads : (InSession(t) /\ InSession(u)) => t = u

C26_Witness ==
    /\ db_conns = {"worker1"}
    /\ db_pc["worker1"] = "exit"
    /\ db_exc["worker1"]
    /\ db_pc["scheduler"] = "waiting"
    /\ db_sessions["scheduler"] = 2
    /\ db_pc["worker2"] = "waiting"
\* C36: the storage lock is released whenever a session ends, whether the
\* body completed or raised, commit or close failed, or opening the
\* connection failed inside __enter__: while no thread is inside a session
\* or entering one, the lock is free, so a waiting thread can go on.
C36_LockReleasedOnEveryExit ==
    (\A t \in DbThreads : db_pc[t] \in {"idle", "waiting"}) =>
        /\ db_lock = NoHolder
        /\ \A t \in DbThreads : db_pc[t] = "waiting" => ENABLED DbAcquire(t)

\* C38: a response whose status is neither 429 nor 418 (an error status such
\* as 500 included) is returned without raising and leaves the domain's
\* failure count at 0; a failure count only ever grows in a call that got a
\* 429, a 418 or a transport exception, and only for that call's domain.
C38_OtherStatusReturnedAndReset ==
    Called =>
        /\ (last.sent /\ last.status \notin {0, 429, 418}) =>
               /\ last.outcome = "returned"
               /\ ~last.raised
               /\ last.exc = "none"
               /\ api_fail_count[last.dom] = 0
               /\ api_429_backoff = last.until0
        /\ \A d \in Domains :
               api_fail_count[d] > last.fail0[d] =>
                   /\ d = last.dom
                   /\ last.sent
                   /\ last.outcome \in {"http429", "http418", "transport"}

C38_Witness ==
    /\ Called /\ last.sent /\ last.status = 500
    /\ last.outcome = "returned"
    /\ last.fail0[last.dom] = 2
    /\ api_fail_count[last.dom] = 0

\* The snapshot task of the current tick has run
SnapshotTaskRan == last_store # NoStore /\ pc > FirstSideTask
FetchFailed == last_store.fetch # "returned" \/ last_store.price = None
Appended == price_snapshots # last_store.before
TaskLeftTable ==
    /\ Appended => price_snapshots =
           Append(last_store.before,
                  [ts_utc |-> last_store.ts_utc, symbol |-> last_store.symbol,
                   price |-> last_store.price, source |-> last_store.source])
    /\ "snapshot" \notin raised
    /\ FetchFailed =>
           /\ ~Appended
           /\ last_store.price = None
           /\ InTick => ENABLED LaterSideTask
           /\ pc = SleepPc => SideTasks \subseteq {ran[i] : i \in DOMAIN ran}

Cached(a) == market[a.symbol] # None
Reached(a) ==
    \/ a.direction = "above" /\ market[a.symbol] >= a.target_price
    \/ a.direction = "below" /\ market[a.symbol] <= a.target_price
FiredBy(a) == [a EXCEPT !.triggered = 1]
Wrote == last_check'.outcome \in {"committed", "close_raised"}

\* what a check does to the table it finds
CheckEffect ==
    \A a \in price_alerts :
        IF a.triggered = 0 /\ Cached(a) /\ Reached(a) /\ Wrote
        THEN FiredBy(a) \in price_alerts' /\ a \notin price_alerts'
        ELSE a \in price_alerts'

\* the notifications a check sends are for alerts it found active, with a
\* cached price that has reached the target, and which it set to triggered
CheckNotifies ==
    \A x \in notified' \ notified :
        /\ x.check = last_check'.n
        /\ \E a \in price_alerts :
               /\ a.id = x.id /\ a.triggered = 0
               /\ Cached(a) /\ Reached(a)
               /\ FiredBy(a) \in price_alerts'

\* C40: each alert fires at most once: a check sets triggered = 1 exactly
\* for the active alerts whose cached price has reached the target, leaves
\* alerts without a cached price and alerts already triggered as they are,
\* no step turns triggered from 1 back to 0 or hands out an id again, and no
\* alert is notified by two different checks.
C40_AlertFiresAtMostOnce ==
    /\ [](/\ \A x, y \in notified : x.id = y.id => x.check = y.check
          /\ \A a, b \in price_alerts : a.id = b.id => a = b)
    /\ [][/\ \A a \in price_alerts :
                 a.triggered = 1 =>
                     \A b \in price_alerts' : b.id = a.id => b = a
          /\ \A b \in price_alerts' :
                 (\E a \in price_alerts : a.id = b.id) \/ b.id > alert_seq
          /\ last_check' # last_check =>
                 /\ CheckEffect
                 /\ price_alerts' \subseteq
                        price_alerts \cup {FiredBy(a) : a \in price_alerts}
                 /\ CheckNotifies
          /\ last_check' = last_check => notified' = notified]_vars

C40_Witness ==
    /\ last_check.n = 2
    /\ last_check.outcome = "committed"
    /\ \E a \in price_alerts :
           /\ a.triggered = 1
           /\ a.direction = "above"
           /\ market[a.symbol] = 110
           /\ [id |-> a.id, check |-> 1] \in notified
    /\ \E a \in price_alerts : a.triggered = 0 /\ ~Cached(a)

(***************************************************************************)
(* Claims about the shared cache (SpecCache)                               *)
(***************************************************************************)
\* C27: every write to a cached series' value or last_refreshed is made by
\* the scheduler thread; request handlers never write a series entry.
C27_SingleWriter ==
    \A r \in refreshes : r.by = "scheduler"

Answered == handler.pc = "done"
\* the value the handler returns comes from refresh r, the timestamp it
\* reports from an older refresh q of the same series
Torn(r, q) ==
    /\ r.key = handler.key /\ q.key = handler.key
    /\ handler.data = r.data
    /\ handler.updated = q.updated
    /\ q.data < r.data
    /\ q.updated # r.updated

\* C28: a handler that reads a series' value and its last_refreshed never
\* gets the value of a newer refresh together with the last_refreshed of an
\* older one.
C28_NeverTorn ==
    Answered => \A r, q \in refreshes : ~Torn(r, q)
(***************************************************************************)
(* Claims about the stored snapshots under every operation of the          *)
(* evaluator specification (SpecEvaluator)                                 *)
(***************************************************************************)
KeyRows(table, id, h) ==
    {e \in table : e.council_id = id /\ e.horizon_min = h}
\* the step writes the evaluation row of the pair (id, h)
Writes(id, h) == KeyRows(council_eval', id, h) # KeyRows(council_eval, id, h)

\* C34: horizons are graded independently.  A step writes the row (p, h)
\* only when p had no row for h, h has elapsed since p was made and a
\* snapshot lies within the window around created_at(p) + h, whatever
\* happens at the other horizons; the prediction's return_pct and
\* evaluated_at are set exactly when the row of the shortest horizon, 15
\* minutes, is written; base price, direction and creation time never
\* change.
C34_HorizonsIndependent ==
    [][\A id \in DOMAIN council_history :
          /\ council_history'[id].btc_price = council_history[id].btc_price
          /\ council_history'[id].prediction = council_history[id].prediction
          /\ council_history'[id].timestamp = council_history[id].timestamp
          /\ \A h \in RangeOf(HorizonsMin) :
                 Writes(id, h) =>
                     /\ KeyRows(council_eval, id, h) = {}
                     /\ council_history[id].timestamp + h * 60 < clock
                     /\ \A e \in KeyRows(council_eval', id, h) :
                            \E i \in DOMAIN price_snapshots :
                                /\ price_snapshots[i].price = e.price_after
                                /\ InWindow(price_snapshots[i].ts_utc,
                                            council_history[id].timestamp + h * 60,
                                            EVAL_WINDOW_MIN)
          /\ Writes(id, 15) =>
                 /\ council_history'[id].evaluated_at_utc = clock
                 /\ \A e \in KeyRows(council_eval', id, 15) :
                        council_history'[id].return_pct =
                            ReturnPct(council_history[id].btc_price, e.price_after)
          /\ ~Writes(id, 15) =>
                 /\ council_history'[id].return_pct = council_history[id].return_pct
                 /\ council_history'[id].evaluated_at_utc =
                        council_history[id].evaluated_at_utc]_vars

C34_Witness ==
    /\ Len(council_history) = 1
    /\ KeyRows(council_eval, 1, 60) # {}
    /\ KeyRows(council_eval, 1, 15) = {}
    /\ council_history[1].return_pct = NULL
    /\ council_history[1].evaluated_at_utc = NULL
    /\ council_history[1].prediction = "BULL"

\* the prediction made last, behind every older one
Newest == Len(council_history)
\* the claim's condition on a pair: the horizon has passed, the base price
\* is positive and a snapshot lies within 10 minutes of created_at + h
Gradable(id, h) ==
    /\ council_history[id].timestamp + h * 60 < clock
    /\ council_history[id].btc_price > 0
    /\ \E i \in DOMAIN price_snapshots :
           /\ price_snapshots[i].symbol = "BTC"
           /\ InWindow(price_snapshots[i].ts_utc,
                       council_history[id].timestamp + h * 60, EVAL_WINDOW_MIN)

\* C35 (SpecBacklog, ticks keep occurring): a pair whose horizon has passed,
\* with a positive base price and a snapshot in its window, is eventually
\* graded, however many older predictions are still pending for the horizon.
C35_GradableEventuallyGraded ==
    \A h \in {15, 60} :
        Gradable(Newest, h) ~> (KeyRows(council_eval, Newest, h) # {})

\* C31: snapshots are immutable and append-only: no step deletes a stored
\* row or changes its timestamp, symbol, price or source; the table only
\* grows.
C31_AppendOnly ==
    [][\A i \in DOMAIN price_snapshots :
          /\ i \in DOMAIN price_snapshots'
          /\ price_snapshots'[i] = price_snapshots[i]]_vars

C31_Witness ==
    /\ Len(price_snapshots) = 2
    /\ last_store.before = SubSeq(price_snapshots, 1, 1)
    /\ price_snapshots[1].price # price_snapshots[2].price
    /\ council_eval # {}
(***************************************************************************)
(* Claims about concurrent calls of the gateway (SpecRace)                 *)
(***************************************************************************)
\* C32: under any interleaving of concurrent calls to one domain, no
\* request is sent to the domain at a moment when now < backoff_until.
C32_NoRequestInBackoff ==
    \A e \in sends : ~(e.until # NoEntry /\ e.at < e.until)

\* C37: backoff_until of a domain never decreases: every update of the
\* deadline sets a value at least as late as the one it replaces.
C37_DeadlineNeverDecreases ==
    [][\A d \in Domains :
          api_429_backoff[d] # NoEntry =>
              api_429_backoff'[d] >= api_429_backoff[d]]_vars
(***************************************************************************)
(* Claims about the evaluator's batch write (SpecBatchWrite)               *)
(***************************************************************************)
Writing == db_pc[Evaluator] \in {"body", "exit"}
VisibleOf(run) == {x \in visible : x.run = run}

\* C33: the rows graded for one horizon in one run are persisted in one
\* session under one acquisition of the storage lock and one commit: of a
\* batch either every row is visible or none is, rows are executed only
\* while the evaluator holds the lock, and no other thread's session is open
\* between the rows of the batch.
C33_BatchIsAtomic ==
    /\ [](/\ VisibleOf(db_sessions[Evaluator]) \in {{}, batch_rows}
          /\ VisibleOf(db_sessions[Evaluator]) # {} => ~Writing
          /\ (Writing \/ tx_rows # {}) =>
                 /\ db_lock = Evaluator
                 /\ \A t \in Workers : ~InSession(t))
    /\ [][\A run \in 1..MaxSessions :
              VisibleOf(run) # {} => VisibleOf(run)' = VisibleOf(run)]_vars

C33_Witness ==
    /\ db_sessions[Evaluator] = 2
    /\ Cardinality(VisibleOf(1)) = 2
    /\ VisibleOf(2) = {}
    /\ Cardinality(batch_rows) = 2
    /\ db_pc[Evaluator] = "close"
    /\ db_exc[Evaluator]
    /\ \E t \in Workers : db_pc[t] = "waiting"
====
